---------------------------- MODULE Spec2Model ----------------------------
(***************************************************************************)
(* Model of the RNI measurement store (rni_app_v3.2.py, with the older     *)
(* pickle-based app.py where it differs): the ingestion pipeline           *)
(* procesar_archivos, the batch merge of the upload form, the locality     *)
(* delete/edit handlers and the full-replace persistence of tabla_maestra. *)
(*                                                                         *)
(* Text is a sequence of one-character strings, so that lower-casing,      *)
(* substring containment and the regular expressions of the source are     *)
(* computed and not assumed.  Numbers are exact fractions <<n, d>>.        *)
(***************************************************************************)
EXTENDS Integers, Sequences, FiniteSets, TLC

VARIABLES
    tabla_maestra,   \* st.session_state["tabla_maestra"]: [cols, rows]
    db,              \* the persisted store (rni.db / tabla_maestra.pkl)
    uploader_key,    \* st.session_state["uploader_key"]
    clock,           \* the wall clock read by datetime.now()
    last,            \* what the last operation was given, returned and showed
    origen,          \* history: the ingestion and the file every row came with
    otra             \* the session of another browser tab on the same store

vars == <<tabla_maestra, db, uploader_key, clock, last, origen, otra>>

(***************************************************************************)
(* Text                                                                    *)
(***************************************************************************)

Digits == {"0", "1", "2", "3", "4", "5", "6", "7", "8", "9"}

\* str.lower() on the letters the model's texts use
UpperMap ==
    [A |-> "a", B |-> "b", C |-> "c", D |-> "d", E |-> "e", F |-> "f",
     G |-> "g", H |-> "h", I |-> "i", J |-> "j", K |-> "k", L |-> "l",
     M |-> "m", N |-> "n", O |-> "o", P |-> "p", Q |-> "q", R |-> "r",
     S |-> "s", T |-> "t", U |-> "u", V |-> "v", W |-> "w", X |-> "x",
     Y |-> "y", Z |-> "z"]

LowerChar(c) == IF c \in DOMAIN UpperMap THEN UpperMap[c] ELSE c

Lower(s) == [i \in 1..Len(s) |-> LowerChar(s[i])]

\* Python's `sub in s`
Contains(s, sub) ==
    \E i \in 0..(Len(s) - Len(sub)) : SubSeq(s, i + 1, i + Len(sub)) = sub

\* str.replace(",", ".")
CommaToDot(s) == [i \in 1..Len(s) |-> IF s[i] = "," THEN "." ELSE s[i]]

IsDigitAt(s, i) == i >= 1 /\ i <= Len(s) /\ s[i] \in Digits

\* the last index of the run of digits that starts at i (i - 1 when none)
RECURSIVE DigitRunEnd(_, _)
DigitRunEnd(s, i) ==
    IF IsDigitAt(s, i) THEN DigitRunEnd(s, i + 1) ELSE i - 1

DigitVal(c) == CHOOSE k \in 0..9 : <<"0", "1", "2", "3", "4", "5", "6", "7", "8", "9">>[k + 1] = c

DigitChar(k) == <<"0", "1", "2", "3", "4", "5", "6", "7", "8", "9">>[k + 1]

\* the value of a run of decimal digits
RECURSIVE DigitsVal(_)
DigitsVal(s) ==
    IF Len(s) = 0 THEN 0
    ELSE 10 * DigitsVal(SubSeq(s, 1, Len(s) - 1)) + DigitVal(s[Len(s)])

\* the decimal digits of a natural number
RECURSIVE NatStr(_)
NatStr(k) ==
    IF k < 10 THEN <<DigitChar(k)>>
    ELSE Append(NatStr(k \div 10), DigitChar(k % 10))

RECURSIVE Pow10(_)
Pow10(k) == IF k = 0 THEN 1 ELSE 10 * Pow10(k - 1)

(***************************************************************************)
(* Numbers: exact fractions <<n, d>> with d > 0, in lowest terms           *)
(***************************************************************************)

Abs(x) == IF x < 0 THEN -x ELSE x

RECURSIVE Gcd(_, _)
Gcd(a, b) == IF b = 0 THEN a ELSE Gcd(b, a % b)

Frac(n, d) ==
    LET g == Gcd(Abs(n), Abs(d))
        s == IF d < 0 THEN -1 ELSE 1
    IN  IF g = 0 THEN <<0, 1>> ELSE <<(s * n) \div g, (s * d) \div g>>

FracAdd(a, b) == Frac(a[1] * b[2] + b[1] * a[2], a[2] * b[2])
FracNeg(a) == <<-a[1], a[2]>>
FracAbs(a) == <<Abs(a[1]), a[2]>>
FracLess(a, b) == a[1] * b[2] < b[1] * a[2]

(***************************************************************************)
(* Cells of a data frame                                                   *)
(***************************************************************************)

NaN == [t |-> "nan"]
Num(n, d) == [t |-> "num", q |-> Frac(n, d)]
Txt(s) == [t |-> "txt", s |-> s]
Date(y, m, d) == [t |-> "date", ymd |-> <<y, m, d>>]
Time(h, m, s) == [t |-> "time", hms |-> <<h, m, s>>]
Stamp(k) == [t |-> "stamp", at |-> k]

\* pd.isna / Series.dropna / Series.notna
IsNa(c) == c.t = "nan"


(***************************************************************************)
(* Field coercion utilities                                                *)
(***************************************************************************)

Signs == {"+", "-"}

IsSignAt(s, i) == i >= 1 /\ i <= Len(s) /\ s[i] \in Signs

\* the last index of the run of non-digits that starts at i (i - 1 when none)
RECURSIVE NonDigitRunEnd(_, _)
NonDigitRunEnd(s, i) ==
    IF i >= 1 /\ i <= Len(s) /\ s[i] \notin Digits
    THEN NonDigitRunEnd(s, i + 1) ELSE i - 1

\* the last index of the run of blanks that starts at i (i - 1 when none)
RECURSIVE SpaceRunEnd(_, _)
SpaceRunEnd(s, i) ==
    IF i >= 1 /\ i <= Len(s) /\ s[i] = " "
    THEN SpaceRunEnd(s, i + 1) ELSE i - 1

\* str.strip()
RECURSIVE Strip(_)
Strip(s) ==
    IF Len(s) > 0 /\ s[1] = " " THEN Strip(Tail(s))
    ELSE IF Len(s) > 0 /\ s[Len(s)] = " " THEN Strip(SubSeq(s, 1, Len(s) - 1))
    ELSE s

\* Where a greedy match of \d+(?:\.\d+)? that starts at j ends (0: no match)
UnsignedEnd(s, j) ==
    LET k == DigitRunEnd(s, j)
    IN  IF k < j THEN 0
        ELSE IF k + 1 <= Len(s) /\ s[k + 1] = "." /\ IsDigitAt(s, k + 2)
             THEN DigitRunEnd(s, k + 2)
             ELSE k

\* Where a greedy match of [-+]?\d+(?:\.\d+)?(?:[eE][-+]?\d+)? (the exponent
\* only when withExp) that starts at i ends (0: no match at i)
MatchNumAt(s, i, withExp) ==
    LET j  == IF IsSignAt(s, i) THEN i + 1 ELSE i
        k  == UnsignedEnd(s, j)
        ej == IF k > 0 /\ k + 1 <= Len(s) /\ s[k + 1] \in {"e", "E"}
              THEN (IF IsSignAt(s, k + 2) THEN k + 3 ELSE k + 2)
              ELSE 0
    IN  IF k = 0 THEN 0
        ELSE IF withExp /\ ej > 0 /\ IsDigitAt(s, ej) THEN DigitRunEnd(s, ej)
        ELSE k

\* re.search of that pattern: <<start, end>> of the leftmost match, <<0, 0>> if none
SearchNum(s, withExp) ==
    IF \E i \in 1..Len(s) : MatchNumAt(s, i, withExp) > 0
    THEN LET i == CHOOSE i \in 1..Len(s) :
                      /\ MatchNumAt(s, i, withExp) > 0
                      /\ \A m \in 1..(i - 1) : MatchNumAt(s, m, withExp) = 0
         IN  <<i, MatchNumAt(s, i, withExp)>>
    ELSE <<0, 0>>

\* float() of a literal [-+]?\d+(\.\d+)?([eE][-+]?\d+)?, as an exact fraction
ParseNum(lit) ==
    LET neg   == Len(lit) > 0 /\ lit[1] = "-"
        j     == IF IsSignAt(lit, 1) THEN 2 ELSE 1
        k     == DigitRunEnd(lit, j)
        hasF  == k + 1 <= Len(lit) /\ lit[k + 1] = "."
        f     == IF hasF THEN DigitRunEnd(lit, k + 2) ELSE k
        ip    == DigitsVal(SubSeq(lit, j, k))
        fdig  == IF hasF THEN SubSeq(lit, k + 2, f) ELSE <<>>
        mant  == ip * Pow10(Len(fdig)) + DigitsVal(fdig)
        hasE  == f + 1 <= Len(lit)
        eneg  == hasE /\ f + 2 <= Len(lit) /\ lit[f + 2] = "-"
        ej    == IF hasE /\ IsSignAt(lit, f + 2) THEN f + 3 ELSE f + 2
        ex    == IF hasE THEN DigitsVal(SubSeq(lit, ej, Len(lit))) ELSE 0
        num   == IF eneg THEN mant ELSE mant * Pow10(ex)
        den   == Pow10(Len(fdig)) * (IF eneg THEN Pow10(ex) ELSE 1)
    IN  Frac(IF neg THEN -num ELSE num, den)

\* The text is, as a whole, a decimal literal (float(str), pd.to_numeric(str)).
\* The texts of the model's files never use the forms "1.", ".5", "inf", "nan".
IsFullNum(s) == Len(s) > 0 /\ MatchNumAt(s, 1, TRUE) = Len(s)

\* repr(float) of a fraction with a finite decimal expansion: "12.3", "-0.5", "7.0"
RECURSIVE DecPlaces(_, _)
DecPlaces(q, k) ==
    IF (Abs(q[1]) * Pow10(k)) % q[2] = 0 \/ k >= 9 THEN k ELSE DecPlaces(q, k + 1)

RECURSIVE ZeroPad(_, _)
ZeroPad(s, w) == IF Len(s) >= w THEN s ELSE ZeroPad(<<"0">> \o s, w)

FloatStr(q) ==
    LET k      == DecPlaces(q, 1)
        scaled == (Abs(q[1]) * Pow10(k)) \div q[2]
    IN  (IF q[1] < 0 THEN <<"-">> ELSE <<>>)
        \o NatStr(scaled \div Pow10(k)) \o <<".">>
        \o ZeroPad(NatStr(scaled % Pow10(k)), k)

\* str(value) of a cell read from a sheet (Series.astype(str), str(val))
CellStr(c) ==
    CASE c.t = "nan"  -> <<"n", "a", "n">>
      [] c.t = "num"  -> FloatStr(c.q)
      [] c.t = "txt"  -> c.s
      [] c.t = "date" -> ZeroPad(NatStr(c.ymd[1]), 4) \o <<"-">>
                         \o ZeroPad(NatStr(c.ymd[2]), 2) \o <<"-">>
                         \o ZeroPad(NatStr(c.ymd[3]), 2)
                         \o <<" ", "0", "0", ":", "0", "0", ":", "0", "0">>
      [] c.t = "time" -> ZeroPad(NatStr(c.hms[1]), 2) \o <<":">>
                         \o ZeroPad(NatStr(c.hms[2]), 2) \o <<":">>
                         \o ZeroPad(NatStr(c.hms[3]), 2)

\* float(m.group(0)) if m else np.nan, m being the span of the match in s
NumOrNaN(s, m) ==
    IF m[1] = 0 THEN NaN ELSE [t |-> "num", q |-> ParseNum(SubSeq(s, m[1], m[2]))]

\* re.search(r"[-+]?\d+(?:\.\d+)?(?:[eE][-+]?\d+)?", s)
FirstNumber(s) == NumOrNaN(s, SearchNum(s, TRUE))

\* a faulty variant: the decimal commas are left as they are
extract_sin_comas(c) == FirstNumber(CellStr(c))

\* extract_numeric_from_text, on one cell of the series
extract_numeric_from_text(c) == FirstNumber(CommaToDot(CellStr(c)))

\* pd.to_numeric(series, errors="coerce"), on one cell
to_numeric_coerce(c) ==
    CASE c.t = "num" -> c
      [] c.t = "txt" -> IF IsFullNum(Strip(c.s))
                        THEN [t |-> "num", q |-> ParseNum(Strip(c.s))]
                        ELSE NaN
      [] OTHER -> NaN

\* the first element of seq that satisfies P (0 when none does)
FirstThat(seq, P(_)) ==
    IF \E k \in 1..Len(seq) : P(seq[k])
    THEN seq[CHOOSE k \in 1..Len(seq) :
                 P(seq[k]) /\ \A m \in 1..(k - 1) : ~P(seq[m])]
    ELSE 0

\* The ends a backtracking match of \d+(?:\.\d+)? starting at j tries, in the
\* order it tries them: the longest fraction first, then shorter fractions,
\* then the whole run of digits, then shorter runs.
UnsignedEnds(s, j) ==
    LET k  == DigitRunEnd(s, j)
        f  == UnsignedEnd(s, j)
        fr == IF k >= j /\ f > k THEN [x \in 1..(f - k - 1) |-> f - x + 1] ELSE <<>>
        dr == IF k >= j THEN [x \in 1..(k - j + 1) |-> k - x + 1] ELSE <<>>
    IN  fr \o dr

\* the same for [+-]?\d+(?:\.\d+)? starting at i
SignedEnds(s, i) ==
    IF IsSignAt(s, i) THEN UnsignedEnds(s, i + 1) ELSE UnsignedEnds(s, i)

\* \D+ after a number that ends at e, then a digit: where \D+ ends (0: no match)
GapEnd(s, e) ==
    LET r == NonDigitRunEnd(s, e + 1)
    IN  IF e > 0 /\ r >= e + 1 /\ IsDigitAt(s, r + 1) THEN r ELSE 0

\* the end of group 2 when group 1 ended at e1 (0: no match)
DmsGroup2End(s, e1) ==
    IF GapEnd(s, e1) = 0 THEN 0
    ELSE FirstThat(UnsignedEnds(s, GapEnd(s, e1) + 1),
                   LAMBDA e2 : GapEnd(s, e2) > 0)

\* the end of group 1 of a match that starts at i (0: no match at i)
DmsGroup1End(s, i) ==
    FirstThat(SignedEnds(s, i), LAMBDA e1 : DmsGroup2End(s, e1) > 0)

HemiLetters == {"N", "n", "S", "s", "E", "e", "W", "w", "O", "o"}

\* where the leftmost match of the DMS pattern starts (0: no match)
DmsStart(s) ==
    FirstThat([i \in 1..Len(s) |-> i], LAMBDA i : DmsGroup1End(s, i) > 0)

\* the optional hemisphere letter at h
DmsHemi(s, h) ==
    IF h <= Len(s) /\ s[h] \in HemiLetters THEN <<s[h]>> ELSE <<>>

\* the groups of the match that starts at i, whose group 1 ends at e1, whose
\* group 2 ends at e2 and whose group 3 starts at b3
DmsGroups(s, i, e1, e2, b3) ==
    [found |-> TRUE,
     g1 |-> SubSeq(s, i, e1),
     g2 |-> SubSeq(s, GapEnd(s, e1) + 1, e2),
     g3 |-> SubSeq(s, b3, UnsignedEnd(s, b3)),
     g4 |-> DmsHemi(s, SpaceRunEnd(s, NonDigitRunEnd(s, UnsignedEnd(s, b3) + 1) + 1) + 1)]

DmsFrom(s, i, e1, e2) == DmsGroups(s, i, e1, e2, GapEnd(s, e2) + 1)

\* re.search of
\*   ([+-]?\d+(?:\.\d+)?)\D+(\d+(?:\.\d+)?)\D+(\d+(?:\.\d+)?)\D*\s*([NnSsEeWwOo])?
\* : the four groups of the leftmost match; group 4 is <<>> when it took no
\* part.  \D* is greedy and everything after it is optional, so the match
\* succeeds with \D* at its longest and is never retried.
DmsAt(s, i) ==
    IF i = 0
    THEN [found |-> FALSE, g1 |-> <<>>, g2 |-> <<>>, g3 |-> <<>>, g4 |-> <<>>]
    ELSE DmsFrom(s, i, DmsGroup1End(s, i), DmsGroup2End(s, DmsGroup1End(s, i)))

DmsSearch(s) == DmsAt(s, DmsStart(s))

\* str.upper() of the hemisphere letter
UpperHemi(g) ==
    IF g = <<>> THEN <<>>
    ELSE <<CHOOSE u \in {"N", "S", "E", "W", "O"} : LowerChar(u) = LowerChar(g[1])>>

\* dec = abs(d) + m / 60 + s / 3600
DmsDec(d, mnt, sec) ==
    FracAdd(FracAdd(FracAbs(d), Frac(mnt[1], mnt[2] * 60)), Frac(sec[1], sec[2] * 3600))

\* if hemi in ["S", "W", "O"]: dec = -dec
DmsSigned(dec, hemi) ==
    [t |-> "num", q |-> IF hemi \in {<<"S">>, <<"W">>, <<"O">>} THEN FracNeg(dec) ELSE dec]

\* the fallback: the first number of the text, m2 being its span
DmsFallback(s, m2) ==
    IF m2[1] > 0 THEN [t |-> "num", q |-> ParseNum(SubSeq(s, m2[1], m2[2]))] ELSE NaN

\* the text s with the groups m of the DMS pattern
DmsOf(s, m, withExp) ==
    IF m.found
    THEN DmsSigned(DmsDec(ParseNum(m.g1), ParseNum(m.g2), ParseNum(m.g3)), UpperHemi(m.g4))
    ELSE DmsFallback(s, SearchNum(s, withExp))

DmsText(s, withExp) == DmsOf(s, DmsSearch(s), withExp)

\* parse_dms_to_decimal; withExp is the exponent part of the fallback pattern
\* (rni_app_v3.2.py has it, app.py has not)
parse_dms(val, withExp) ==
    IF IsNa(val) THEN NaN
    ELSE IF val.t = "num" THEN val
    ELSE IF val.t = "txt" /\ IsFullNum(Strip(val.s))
         THEN [t |-> "num", q |-> ParseNum(Strip(val.s))]
    ELSE DmsText(CommaToDot(Strip(CellStr(val))), withExp)

parse_dms_to_decimal(val) == parse_dms(val, TRUE)

(***************************************************************************)
(* Data frames: [cols |-> sequence of column names, rows |-> sequence of   *)
(* rows], a row being a function from the column names to cells            *)
(***************************************************************************)

Range(s) == {s[i] : i \in 1..Len(s)}

EmptyDF == [cols |-> <<>>, rows |-> <<>>]

\* DataFrame.empty
IsEmpty(df) == Len(df.rows) = 0 \/ Len(df.cols) = 0

\* the frame with only the columns in keep, in their order
WithCols(df, keep) ==
    [cols |-> keep,
     rows |-> [i \in 1..Len(df.rows) |-> [c \in Range(keep) |-> df.rows[i][c]]]]

\* df[name] = value(row): a new column goes last, an existing one is overwritten
SetCol(df, name, value(_)) ==
    LET cols == IF name \in Range(df.cols) THEN df.cols ELSE Append(df.cols, name)
    IN  [cols |-> cols,
         rows |-> [i \in 1..Len(df.rows) |->
                      [c \in Range(cols) |->
                          IF c = name THEN value(df.rows[i]) ELSE df.rows[i][c]]]]

\* df[mask(row)]
FilterRows(df, mask(_)) == [cols |-> df.cols, rows |-> SelectSeq(df.rows, mask)]

\* df.drop(columns=[name], errors="ignore")
DropCol(df, name) == WithCols(df, SelectSeq(df.cols, LAMBDA c : c # name))

\* df.dropna(axis=1, how="all")
DropEmptyCols(df) ==
    WithCols(df, SelectSeq(df.cols,
        LAMBDA c : \E i \in 1..Len(df.rows) : ~IsNa(df.rows[i][c])))

\* df.rename(columns=ren), ren a function from old names to new names
RenameCols(df, ren) ==
    LET new(c) == IF c \in DOMAIN ren THEN ren[c] ELSE c
        old(n) == CHOOSE c \in Range(df.cols) : new(c) = n
        cols   == [k \in 1..Len(df.cols) |-> new(df.cols[k])]
    IN  [cols |-> cols,
         rows |-> [i \in 1..Len(df.rows) |->
                      [n \in Range(cols) |-> df.rows[i][old(n)]]]]

\* the columns of b that a has not, in b's order
NewCols(a, b) == SelectSeq(b, LAMBDA c : c \notin Range(a))

\* a row widened to the columns cols, NaN where it has no value
Widen(row, cols) ==
    [c \in Range(cols) |-> IF c \in DOMAIN row THEN row[c] ELSE NaN]

\* pd.concat([a, b], ignore_index=True)
Concat2(a, b) ==
    LET cols == a.cols \o NewCols(a.cols, b.cols)
    IN  [cols |-> cols,
         rows |-> [i \in 1..Len(a.rows) |-> Widen(a.rows[i], cols)]
                  \o [i \in 1..Len(b.rows) |-> Widen(b.rows[i], cols)]]

\* pd.concat(list, ignore_index=True)
RECURSIVE ConcatAll(_)
ConcatAll(dfs) ==
    IF Len(dfs) = 0 THEN EmptyDF
    ELSE Concat2(ConcatAll(SubSeq(dfs, 1, Len(dfs) - 1)), dfs[Len(dfs)])

\* the cells of column c that are numbers
NumsOf(df, c) ==
    {df.rows[i][c].q : i \in {k \in 1..Len(df.rows) : df.rows[k][c].t = "num"}}

\* Series.max() of the numbers in a non-empty set
FracMax(S) == CHOOSE a \in S : \A b \in S : ~FracLess(a, b)

\* int(x)
IntOf(q) == IF q[1] >= 0 THEN q[1] \div q[2] ELSE -((-q[1]) \div q[2])

(***************************************************************************)
(* Column names                                                            *)
(***************************************************************************)

cCCTE == <<"C", "C", "T", "E">>
cProvincia == <<"P", "r", "o", "v", "i", "n", "c", "i", "a">>
cLocalidad == <<"L", "o", "c", "a", "l", "i", "d", "a", "d">>
cResultado == <<"R", "e", "s", "u", "l", "t", "a", "d", "o">>
cFecha == <<"F", "e", "c", "h", "a">>
cHora == <<"H", "o", "r", "a">>
cNombreArchivo == <<"N", "o", "m", "b", "r", "e", " ", "A", "r", "c", "h", "i", "v", "o">>
cExpediente == <<"E", "x", "p", "e", "d", "i", "e", "n", "t", "e">>
cSonda == <<"S", "o", "n", "d", "a">>
cLat == <<"L", "a", "t">>
cLon == <<"L", "o", "n">>
cFechaCarga == <<"F", "e", "c", "h", "a", "C", "a", "r", "g", "a">>
cIdxNum == <<"_", "i", "d", "x", "_", "n", "u", "m">>

EXPECTED_COLS ==
    <<cCCTE, cProvincia, cLocalidad, cResultado, cFecha, cHora,
      cNombreArchivo, cExpediente, cSonda, cLat, cLon, cFechaCarga>>

(***************************************************************************)
(* Column identification                                                   *)
(***************************************************************************)

\* the accented i, the ordinal sign and the degree sign are written as the
\* one-character tokens "i'", "o_" and "o^"
IndexCandidates ==
    << <<"i'", "n", "d", "i", "c", "e">>, <<"i", "n", "d", "i", "c", "e">>,
       <<"i", "n", "d", "e", "x">>, <<"n", "r", "o">>, <<"n", "o_">>,
       <<"n", "o^">>, <<"n", "u", "m">>, <<"n", "u", "m", "e", "r", "o">>,
       <<"#">> >>

\* any(cand in str(c).lower() for cand in cands)
MatchesAny(c, cands) == \E k \in 1..Len(cands) : Contains(Lower(c), cands[k])

\* the first column that satisfies P, <<>> (None) when none does
FirstCol(cols, P(_)) ==
    IF \E k \in 1..Len(cols) : P(cols[k])
    THEN cols[CHOOSE k \in 1..Len(cols) :
                  P(cols[k]) /\ \A m \in 1..(k - 1) : ~P(cols[m])]
    ELSE <<>>

find_index_column(df) ==
    FirstCol(df.cols, LAMBDA c : MatchesAny(c, IndexCandidates))

MappingKeys == <<cFecha, cHora, cResultado, cSonda, cLat, cLon>>

mapping_candidates(key) ==
    CASE key = cFecha     -> << <<"f", "e", "c", "h", "a">> >>
      [] key = cHora      -> << <<"h", "o", "r", "a">>, <<"t", "i", "m", "e">> >>
      [] key = cResultado -> << <<"r", "e", "s", "u", "l", "t", "a", "d", "o", " ",
                                  "c", "o", "n", " ", "i", "n", "c", "e", "r", "t",
                                  "i", "d", "u", "m", "b", "r", "e">>,
                                <<"r", "e", "s", "u", "l", "t", "a", "d", "o">> >>
      [] key = cSonda     -> << <<"s", "o", "n", "d", "a">>,
                                <<"s", "o", "n", "d", "a", " ", "u", "t", "i", "l",
                                  "i", "z", "a", "d", "a">> >>
      [] key = cLat       -> << <<"l", "a", "t", "i", "t", "u", "d">>, <<"l", "a", "t">> >>
      [] key = cLon       -> << <<"l", "o", "n", "g", "i", "t", "u", "d">>, <<"l", "o", "n">> >>

Optional(key) == key \in {cLat, cLon}

\* a faulty variant of the search: the candidates are tried in their order
\* and the first of them that some header contains chooses the header
FoundPorCandidato(df, key) ==
    IF \E c \in Range(df.cols) : MatchesAny(c, mapping_candidates(key))
    THEN FirstCol(df.cols,
             LAMBDA c : Contains(Lower(c),
                 FirstCol(mapping_candidates(key),
                          LAMBDA cand : \E h \in Range(df.cols) : Contains(Lower(h), cand))))
    ELSE <<>>

\* found = next((c for c in df.columns if any(cand in ... for cand in cands)), None)
FoundFor(df, key) ==
    FirstCol(df.cols, LAMBDA c : MatchesAny(c, mapping_candidates(key)))

\* a faulty variant of the loop: Fecha is taken for an optional field
FirstMissingSinFecha(df) ==
    FirstCol(MappingKeys,
             LAMBDA key : FoundFor(df, key) = <<>> /\ ~Optional(key) /\ key # cFecha)

\* The loop over mapping_candidates: the first key (in the dict's order) that
\* is mandatory and has no column, <<>> when there is none.
FirstMissing(df) ==
    FirstCol(MappingKeys, LAMBDA key : FoundFor(df, key) = <<>> /\ ~Optional(key))

\* columnas_map of a file no mandatory column of which is missing
columnas_map(df) ==
    [key \in {k \in Range(MappingKeys) : FoundFor(df, k) # <<>>} |-> FoundFor(df, key)]

\* {v: k for k, v in columnas_map.items()}: a header that several keys found
\* keeps the last of them in the dict's order
RenameMap(df) ==
    LET cm == columnas_map(df)
        lastKey(h) ==
            MappingKeys[CHOOSE k \in 1..Len(MappingKeys) :
                /\ MappingKeys[k] \in DOMAIN cm /\ cm[MappingKeys[k]] = h
                /\ \A m \in (k + 1)..Len(MappingKeys) :
                       ~(MappingKeys[m] \in DOMAIN cm /\ cm[MappingKeys[m]] = h)]
    IN  [h \in {cm[k] : k \in DOMAIN cm} |-> lastKey(h)]

(***************************************************************************)
(* The uploaded files the model draws its batches from                     *)
(***************************************************************************)

hNro == <<"N", "r", "o">>
hNroSerie == <<"N", "r", "o", " ", "s", "e", "r", "i", "e">>
hFECHA == <<"F", "E", "C", "H", "A">>
hTime == <<"T", "i", "m", "e">>
hResultadoInc ==
    <<"R", "e", "s", "u", "l", "t", "a", "d", "o", " ", "c", "o", "n", " ",
      "i", "n", "c", "e", "r", "t", "i", "d", "u", "m", "b", "r", "e", " ",
      "(", "V", "/", "m", ")">>
hSondaUtilizada ==
    <<"S", "o", "n", "d", "a", " ", "u", "t", "i", "l", "i", "z", "a", "d", "a">>
hLatitud == <<"L", "a", "t", "i", "t", "u", "d">>
hLongitud == <<"L", "o", "n", "g", "i", "t", "u", "d">>
hObs == <<"O", "b", "s">>

tS1 == <<"S", "1">>
tS2 == <<"S", "2">>

\* a.xlsx: index column, all fields, a footer row under the data
FileA ==
    [name |-> <<"a", ".", "x", "l", "s", "x">>, readable |-> TRUE,
     headers |-> <<hNro, cFecha, cHora, hResultadoInc, cSonda, hLatitud, hLongitud>>,
     data |-> <<
        <<Num(1, 1), Date(2024, 1, 5), Time(9, 0, 0),
          Txt(<<"1", "2", ",", "3", " ", "(", "0", ",", "5", ")">>), Txt(tS1),
          Txt(<<"3", "4", " ", "3", "6", " ", "1", "2", " ", "S">>), Num(-584, 10)>>,
        <<Num(3, 1), Date(2024, 1, 5), Time(17, 0, 0),
          Txt(<<"n", "/", "d">>), Txt(tS1), NaN, NaN>>,
        <<Txt(<<"T", "o", "t", "a", "l">>), NaN, NaN, NaN, NaN, NaN, NaN>> >>]

\* b.xlsx: no index column, no coordinates, headers in another spelling
FileB ==
    [name |-> <<"b", ".", "x", "l", "s", "x">>, readable |-> TRUE,
     headers |-> <<hFECHA, hTime, cResultado, hSondaUtilizada, hObs>>,
     data |-> <<
        <<Date(2024, 1, 6), Time(23, 0, 0), Num(87, 1), Txt(tS2), Txt(<<"x">>)>> >>]

\* c.xlsx: no date column
FileC ==
    [name |-> <<"c", ".", "x", "l", "s", "x">>, readable |-> TRUE,
     headers |-> <<hNro, cHora, cResultado, cSonda>>,
     data |-> << <<Num(1, 1), Time(10, 0, 0), Num(5, 1), Txt(tS1)>> >>]

\* d.xlsx: not a spreadsheet, pd.read_excel raises
FileD ==
    [name |-> <<"d", ".", "x", "l", "s", "x">>, readable |-> FALSE,
     headers |-> <<>>, data |-> <<>>]

\* e.xlsx: all mandatory headers, and a serial-number column whose header
\* contains "nro" and whose cells are not numbers
FileE ==
    [name |-> <<"e", ".", "x", "l", "s", "x">>, readable |-> TRUE,
     headers |-> <<hNroSerie, cFecha, cHora, cResultado, cSonda>>,
     data |-> <<
        <<Txt(<<"S", "N", "-", "7">>), Date(2024, 1, 7), Time(8, 0, 0),
          Num(2, 1), Txt(tS2)>> >>]

\* f.xlsx: two headers that contain a candidate of Resultado, the one that
\* contains the first candidate coming second
FileF ==
    [name |-> <<"f", ".", "x", "l", "s", "x">>, readable |-> TRUE,
     headers |-> <<cFecha, cHora, cResultado, hResultadoInc, cSonda>>,
     data |-> <<
        <<Date(2024, 1, 8), Time(1, 0, 0), Num(4, 1),
          Txt(<<"9", ",", "9">>), Txt(tS1)>> >>]

\* g.xlsx: one header, "Fecha y hora", that contains a candidate of Fecha and
\* one of Hora, and no result that is a number
hFechaHora == <<"F", "e", "c", "h", "a", " ", "y", " ", "h", "o", "r", "a">>

FileG ==
    [name |-> <<"g", ".", "x", "l", "s", "x">>, readable |-> TRUE,
     headers |-> <<hFechaHora, cResultado, cSonda>>,
     data |-> <<
        <<Txt(<<"9", "/", "1", "/", "2", "4", " ", "1", "0", ":", "0", "0">>),
          Txt(<<"n", "/", "d">>), Txt(tS2)>> >>]

Archivo(id) ==
    CASE id = "a" -> FileA [] id = "b" -> FileB [] id = "c" -> FileC
      [] id = "d" -> FileD [] id = "e" -> FileE [] id = "f" -> FileF
      [] id = "g" -> FileG

FileIds == {"a", "b", "c", "d", "e", "f", "g"}

tCABA == <<"C", "A", "B", "A">>
tSalta == <<"S", "a", "l", "t", "a">>
tOnce == <<"O", "n", "c", "e">>
tonce == <<"o", "n", "c", "e">>
tE1 == <<"E", "1">>

\* the values of the form fields CCTE, Provincia, Localidad and Expediente
Metas ==
    {[ccte |-> tCABA, provincia |-> tCABA, localidad |-> tOnce, expediente |-> <<>>],
     [ccte |-> tSalta, provincia |-> tSalta, localidad |-> tonce, expediente |-> tE1],
     [ccte |-> tCABA, provincia |-> tSalta, localidad |-> <<>>, expediente |-> tE1]}

(***************************************************************************)
(* procesar_archivos                                                       *)
(***************************************************************************)

\* pd.read_excel(file, header=8, engine="openpyxl") of a readable file
read_excel(file) ==
    LET at(c) == CHOOSE k \in 1..Len(file.headers) : file.headers[k] = c
    IN  [cols |-> file.headers,
         rows |-> [i \in 1..Len(file.data) |->
                      [c \in Range(file.headers) |-> file.data[i][at(c)]]]]

\* os.path.splitext(name)[0]
splitext_stem(name) ==
    LET dots == {i \in 1..Len(name) :
                    name[i] = "." /\ \E k \in 1..(i - 1) : name[k] # "."}
    IN  IF dots = {} THEN name
        ELSE SubSeq(name, 1, (CHOOSE i \in dots : \A k \in dots : k <= i) - 1)

\* The sheet after dropna, with _idx_num and without the rows whose index is
\* not a number when there is an index column.
IndexFiltered(df) ==
    LET idx_col == find_index_column(df)
    IN  IF idx_col # <<>>
        THEN FilterRows(SetCol(df, cIdxNum, LAMBDA r : to_numeric_coerce(r[idx_col])),
                        LAMBDA r : ~IsNa(r[cIdxNum]))
        ELSE df

\* a faulty variant of the count: the rows that the index filter leaves
TotalSobrevivientes(df) == Len(IndexFiltered(df).rows)

\* total_mediciones
TotalMediciones(df) ==
    LET f == IndexFiltered(df)
    IN  IF find_index_column(df) # <<>> /\ ~IsEmpty(f)
        THEN IntOf(FracMax(NumsOf(f, cIdxNum)))
        ELSE Len(df.rows)

\* column name, applied to every cell of the column if the frame has it
MapCol(df, name, conv(_)) ==
    IF name \in Range(df.cols) THEN SetCol(df, name, LAMBDA r : conv(r[name])) ELSE df

\* df["CCTE"] = ccte ... df["Nombre Archivo"] = file.name
Etiquetar(df, file, ccte, provincia, localidad, expediente) ==
    SetCol(SetCol(SetCol(SetCol(SetCol(df,
        cCCTE, LAMBDA r : Txt(ccte)),
        cProvincia, LAMBDA r : Txt(provincia)),
        cLocalidad, LAMBDA r : Txt(localidad)),
        cExpediente, LAMBDA r : Txt(IF Len(expediente) > 0 THEN expediente
                                    ELSE splitext_stem(file.name))),
        cNombreArchivo, LAMBDA r : Txt(file.name))

\* Limpieza numerica
Convertir(df) ==
    MapCol(MapCol(MapCol(df,
        cResultado, extract_numeric_from_text),
        cLat, parse_dms_to_decimal),
        cLon, parse_dms_to_decimal)

\* Renombrado y limpieza: the frame of an accepted file
Limpiar(df, file, ccte, provincia, localidad, expediente) ==
    DropCol(Convertir(Etiquetar(RenameCols(df, RenameMap(df)),
                                file, ccte, provincia, localidad, expediente)),
            cIdxNum)

\* a faulty variant of the maximum: zero where no result is a number
MaxResultadoCero(df) ==
    IF cResultado \notin Range(df.cols) THEN [t |-> "none"]
    ELSE IF NumsOf(df, cResultado) = {} THEN [t |-> "num", q |-> <<0, 1>>]
    ELSE [t |-> "num", q |-> FracMax(NumsOf(df, cResultado))]

\* df["Resultado"].max() if "Resultado" in df.columns else None
MaxResultado(df) ==
    IF cResultado \notin Range(df.cols) THEN [t |-> "none"]
    ELSE IF NumsOf(df, cResultado) = {} THEN NaN
    ELSE [t |-> "num", q |-> FracMax(NumsOf(df, cResultado))]

\* the warning of a file that is left out, or of the exception
Aviso(kind, file, campo) == [kind |-> kind, archivo |-> file.name, campo |-> campo]

\* Resumen: the summary row of the file read as df0 and cleaned as df
Resumen(file, df0, df) ==
    [archivo |-> Txt(file.name),
     expediente |-> df.rows[1][cExpediente],
     total_mediciones |-> TotalMediciones(df0),
     max_resultado |-> MaxResultado(df)]

\* the end of a turn for a file with every mandatory column: df["Expediente"]
\* .iloc[0] of a frame without rows raises IndexError, which nothing catches
Aceptar(file, df0, df) ==
    IF Len(df.rows) = 0
    THEN [outcome |-> "raise", df |-> df, resumen |-> <<>>,
          aviso |-> Aviso("IndexError", file, <<>>)]
    ELSE [outcome |-> "ok", df |-> df, resumen |-> Resumen(file, df0, df),
          aviso |-> Aviso("", file, <<>>)]

\* Identificacion de columnas, on the frame df1 left by the index filter
Identificar(file, df0, df1, missing, ccte, provincia, localidad, expediente) ==
    IF missing # <<>>
    THEN [outcome |-> "missing", df |-> EmptyDF, resumen |-> <<>>,
          aviso |-> Aviso("no_se_encontro_columna", file, missing)]
    ELSE Aceptar(file, df0, Limpiar(df1, file, ccte, provincia, localidad, expediente))

Filtrar(file, df0, df1, ccte, provincia, localidad, expediente) ==
    Identificar(file, df0, df1, FirstMissing(df1), ccte, provincia, localidad, expediente)

Leido(file, df0, ccte, provincia, localidad, expediente) ==
    Filtrar(file, df0, IndexFiltered(df0), ccte, provincia, localidad, expediente)

\* One turn of the loop of procesar_archivos.  outcome is "unreadable" or
\* "missing" (a warning, then continue), "ok" (the frame and the summary row
\* are appended) or "raise".
procesar_archivo(file, ccte, provincia, localidad, expediente) ==
    IF ~file.readable
    THEN [outcome |-> "unreadable", df |-> EmptyDF, resumen |-> <<>>,
          aviso |-> Aviso("no_se_pudo_leer", file, <<>>)]
    ELSE Leido(file, DropEmptyCols(read_excel(file)),
               ccte, provincia, localidad, expediente)

\* a faulty variant of the turn: an accepted frame is put in front of the list
TurnoAlFrente(acc, r) ==
    CASE r.outcome = "raise" -> [acc EXCEPT !.raised = TRUE]
      [] r.outcome \in {"unreadable", "missing"} ->
            [acc EXCEPT !.avisos = Append(@, r.aviso)]
      [] r.outcome = "ok" ->
            [acc EXCEPT !.lista = <<r.df>> \o @, !.resumen = <<r.resumen>> \o @]

\* lista_procesados, resumen_archivos, the warnings shown and whether an
\* exception has ended the call, after the turn that ended as r
Turno(acc, r) ==
    CASE r.outcome = "raise" -> [acc EXCEPT !.raised = TRUE]
      [] r.outcome \in {"unreadable", "missing"} ->
            [acc EXCEPT !.avisos = Append(@, r.aviso)]
      [] r.outcome = "ok" ->
            [acc EXCEPT !.lista = Append(@, r.df), !.resumen = Append(@, r.resumen)]

\* the body of the loop for every file and every form of the model, computed
\* once: a turn depends on the file and on the fields of the form alone
Turnos ==
    [id \in FileIds, meta \in Metas |->
        procesar_archivo(Archivo(id), meta.ccte, meta.provincia, meta.localidad,
                         meta.expediente)]

\* the turn of the file id
TurnoDe(id, meta, ccte, provincia, localidad, expediente) ==
    IF meta \in Metas THEN Turnos[id, meta]
    ELSE procesar_archivo(Archivo(id), ccte, provincia, localidad, expediente)

\* The loop `for file in uploaded_files`: an exception ends it
RECURSIVE Bucle(_, _, _, _, _, _)
Bucle(files, acc, ccte, provincia, localidad, expediente) ==
    IF Len(files) = 0 \/ acc.raised THEN acc
    ELSE Bucle(Tail(files),
               Turno(acc, TurnoDe(Head(files),
                                  [ccte |-> ccte, provincia |-> provincia,
                                   localidad |-> localidad, expediente |-> expediente],
                                  ccte, provincia, localidad, expediente)),
               ccte, provincia, localidad, expediente)

\* what the call gives once the loop has ended as acc
Devolver(acc) ==
    IF acc.raised
    THEN [raised |-> TRUE, df_proc |-> EmptyDF, resumen_df |-> <<>>,
          avisos |-> acc.avisos]
    ELSE IF Len(acc.lista) > 0
    THEN [raised |-> FALSE, df_proc |-> ConcatAll(acc.lista),
          resumen_df |-> acc.resumen, avisos |-> acc.avisos]
    ELSE [raised |-> FALSE, df_proc |-> EmptyDF, resumen_df |-> <<>>,
          avisos |-> acc.avisos]

\* procesar_archivos(uploaded_files, ccte, provincia, localidad, expediente):
\* raised, or the pair (df_proc, resumen_df) it returns, and the warnings shown
procesar_archivos(files, ccte, provincia, localidad, expediente) ==
    Devolver(Bucle(files,
                   [lista |-> <<>>, resumen |-> <<>>, avisos |-> <<>>, raised |-> FALSE],
                   ccte, provincia, localidad, expediente))

(***************************************************************************)
(* calcular_tiempo_total_por_archivo                                       *)
(*                                                                         *)
(* A timedelta is an integer, its seconds.  The callers convert Fecha to   *)
(* datetime.date and Hora to datetime.time first (lines 482-484, 661-663). *)
(***************************************************************************)

\* the seconds of the day of a datetime.time
SegundosDe(hms) == hms[1] * 3600 + hms[2] * 60 + hms[3]

\* the day number of the month m (March is 0) of the year y, day d
OrdinalDe(y, m, d) ==
    365 * y + (y \div 4) - (y \div 100) + (y \div 400) + ((153 * m + 2) \div 5) + d

\* the day number of a datetime.date
Ordinal(ymd) ==
    IF ymd[2] <= 2 THEN OrdinalDe(ymd[1] - 1, ymd[2] + 9, ymd[3])
    ELSE OrdinalDe(ymd[1], ymd[2] - 3, ymd[3])

\* datetime.combine(fecha, hora)
combine(fecha, hms) == [dia |-> Ordinal(fecha.ymd), seg |-> SegundosDe(hms)]

\* dt_fin - dt_inicio
Resta(dt_fin, dt_inicio) ==
    (dt_fin.dia - dt_inicio.dia) * 86400 + dt_fin.seg - dt_inicio.seg

\* the keys of df.groupby(col): the values of the column that are not null
Claves(df, col) == {df.rows[i][col] : i \in 1..Len(df.rows)} \ {NaN}

\* the frame of a key of df.groupby(col)
Grupo(df, col, key) == FilterRows(df, LAMBDA r : r[col] = key)

\* df_dia["Hora"].dropna(), as the set of its values
horas_validas(df_dia) ==
    {df_dia.rows[i][cHora].hms :
        i \in {k \in 1..Len(df_dia.rows) : ~IsNa(df_dia.rows[k][cHora])}}

\* horas_validas.min() and horas_validas.max()
HoraMin(H) == CHOOSE a \in H : \A b \in H : SegundosDe(a) <= SegundosDe(b)
HoraMax(H) == CHOOSE a \in H : \A b \in H : SegundosDe(b) <= SegundosDe(a)

\* if delta.total_seconds() < 0: delta += timedelta(days=1)
DeltaCorregido(delta) == IF delta < 0 THEN delta + 86400 ELSE delta

\* what the day fecha of a file adds to the total
TotalDia(fecha, H) ==
    IF H = {} THEN 0
    ELSE DeltaCorregido(Resta(combine(fecha, HoraMax(H)), combine(fecha, HoraMin(H))))

\* the loop over df_archivo.groupby("Fecha"); a sum, so the order of the keys
\* does not matter
RECURSIVE TotalFechas(_, _)
TotalFechasDesde(df_archivo, F, fecha) ==
    TotalDia(fecha, horas_validas(Grupo(df_archivo, cFecha, fecha)))
        + TotalFechas(df_archivo, F \ {fecha})

TotalFechas(df_archivo, F) ==
    IF F = {} THEN 0 ELSE TotalFechasDesde(df_archivo, F, CHOOSE x \in F : TRUE)

\* the rows of the frame that have a date and a time, and their instants
Completas(df) ==
    {i \in 1..Len(df.rows) : ~IsNa(df.rows[i][cFecha]) /\ ~IsNa(df.rows[i][cHora])}

Instante(df, i) == combine(df.rows[i][cFecha], df.rows[i][cHora].hms)

Primera(df) ==
    CHOOSE i \in Completas(df) :
        \A k \in Completas(df) : Resta(Instante(df, k), Instante(df, i)) >= 0

Ultima(df) ==
    CHOOSE j \in Completas(df) :
        \A k \in Completas(df) : Resta(Instante(df, j), Instante(df, k)) >= 0

\* a faulty variant: the time from the first to the last reading of the file
TotalArchivoDeExtremos(df_archivo) ==
    IF /\ cFecha \in Range(df_archivo.cols)
       /\ cHora \in Range(df_archivo.cols)
       /\ Completas(df_archivo) # {}
    THEN Resta(Instante(df_archivo, Ultima(df_archivo)),
               Instante(df_archivo, Primera(df_archivo)))
    ELSE 0

\* the time between the rows k and k + 1, when both are readings of one day
Paso(df, k) ==
    IF /\ {k, k + 1} \subseteq Completas(df)
       /\ df.rows[k][cFecha] = df.rows[k + 1][cFecha]
    THEN Abs(Resta(Instante(df, k + 1), Instante(df, k)))
    ELSE 0

RECURSIVE Pasos(_, _)
Pasos(df, k) == IF k >= Len(df.rows) THEN 0 ELSE Paso(df, k) + Pasos(df, k + 1)

\* a faulty variant: the sum of the times between consecutive readings
TotalArchivoConsecutivo(df_archivo) ==
    IF cFecha \in Range(df_archivo.cols) /\ cHora \in Range(df_archivo.cols)
    THEN Pasos(df_archivo, 1)
    ELSE 0

\* what a file adds to the total
TotalArchivo(df_archivo) ==
    IF cFecha \in Range(df_archivo.cols) /\ cHora \in Range(df_archivo.cols)
    THEN TotalFechas(df_archivo, Claves(df_archivo, cFecha))
    ELSE 0

\* the loop over df.groupby("Nombre Archivo")
RECURSIVE TotalArchivos(_, _)
TotalArchivosDesde(df, A, archivo) ==
    TotalArchivo(Grupo(df, cNombreArchivo, archivo)) + TotalArchivos(df, A \ {archivo})

TotalArchivos(df, A) ==
    IF A = {} THEN 0 ELSE TotalArchivosDesde(df, A, CHOOSE x \in A : TRUE)

\* a faulty variant: the days are grouped across the files
calcular_tiempo_sin_archivos(df) ==
    IF cNombreArchivo \in Range(df.cols) THEN TotalArchivo(df) ELSE 0

calcular_tiempo_total_por_archivo(df) ==
    IF cNombreArchivo \in Range(df.cols)
    THEN TotalArchivos(df, Claves(df, cNombreArchivo))
    ELSE 0

(***************************************************************************)
(* Bounds of the model                                                     *)
(***************************************************************************)

MaxBatch == 3      \* files in one upload
MaxRows == 4       \* rows of tabla_maestra
MaxClock == 3      \* readings of datetime.now()
MaxFilas == 4      \* rows of a record set whose duration is computed

\* the sequences of at most n different files
RECURSIVE BatchesOf(_)
BatchesOf(n) ==
    IF n = 0 THEN {<<>>}
    ELSE LET prev == BatchesOf(n - 1)
             full == {b \in prev : Len(b) = n - 1}
         IN  prev \cup {Append(p[1], p[2]) :
                           p \in {x \in full \X FileIds : x[2] \notin Range(x[1])}}

\* `submit and files`: an upload holds at least one file
Batches == BatchesOf(MaxBatch) \ {<<>>}

\* procesar_archivos on every upload of the model, computed once
Procesado ==
    [files \in Batches, meta \in Metas |->
        procesar_archivos(files, meta.ccte, meta.provincia, meta.localidad,
                          meta.expediente)]

(***************************************************************************)
(* The persisted store                                                     *)
(***************************************************************************)

\* What DataFrame.to_sql writes for a cell and pd.read_sql reads back: dates,
\* times and timestamps are stored as their ISO text.
to_sql_cell(c) ==
    CASE c.t = "date"  -> [t |-> "sqltxt", of |-> "date", v |-> c.ymd]
      [] c.t = "time"  -> [t |-> "sqltxt", of |-> "time", v |-> c.hms]
      [] c.t = "stamp" -> [t |-> "sqltxt", of |-> "stamp", v |-> <<c.at>>]
      [] OTHER -> c

\* a faulty variant of the write: the rows are inserted last first
to_sql_al_reves(df) ==
    [cols |-> df.cols,
     rows |-> [i \in 1..Len(df.rows) |->
                  [c \in Range(df.cols) |->
                      to_sql_cell(df.rows[Len(df.rows) + 1 - i][c])]]]

to_sql(df) ==
    [cols |-> df.cols,
     rows |-> [i \in 1..Len(df.rows) |->
                  [c \in Range(df.cols) |-> to_sql_cell(df.rows[i][c])]]]

\* How a full-replace write can end.  if_exists="replace" drops the table,
\* creates it again and then inserts the rows; app.py opens the pickle file
\* for writing, which empties it, and then dumps.
\*   "ok"            the write completes
\*   "falla_antes"   it fails before the old contents are touched
\*   "falla_durante" it fails after the old contents are gone
WriteOutcomes == {"ok", "falla_antes", "falla_durante"}

\* a faulty variant of the write: if_exists="append"
save_con_append(dbv, df, w) ==
    CASE w = "ok" -> [estado |-> "tabla", df |-> Concat2(dbv.df, to_sql(df))]
      [] w = "falla_antes" -> dbv
      [] w = "falla_durante" -> [estado |-> "tabla", df |-> [cols |-> df.cols, rows |-> <<>>]]

\* a faulty variant of the write: the stored rows that df has not are kept
save_con_fusion(dbv, df, w) ==
    CASE w = "ok" ->
            [estado |-> "tabla",
             df |-> Concat2([cols |-> dbv.df.cols,
                             rows |-> SelectSeq(dbv.df.rows,
                                                LAMBDA r : r \notin Range(to_sql(df).rows))],
                            to_sql(df))]
      [] w = "falla_antes" -> dbv
      [] w = "falla_durante" -> [estado |-> "tabla", df |-> [cols |-> df.cols, rows |-> <<>>]]

\* save_tabla_maestra_to_db(df): the store afterwards
save_tabla_maestra_to_db(dbv, df, w) ==
    CASE w = "ok" -> [estado |-> "tabla", df |-> to_sql(df)]
      [] w = "falla_antes" -> dbv
      [] w = "falla_durante" -> [estado |-> "tabla", df |-> [cols |-> df.cols, rows |-> <<>>]]

\* the key of a stored column name: c.strip().lower() without the accents
ColKey(c) ==
    LET s == Lower(Strip(c))
    IN  [i \in 1..Len(s) |-> IF s[i] = "o'" THEN "o" ELSE IF s[i] = "i'" THEN "i" ELSE s[i]]

\* col_map of load_tabla_maestra_from_db
CanonicalOf(c) ==
    LET key == ColKey(c)
    IN  CASE key = Lower(cCCTE) -> cCCTE
          [] key = Lower(cProvincia) -> cProvincia
          [] key = Lower(cLocalidad) -> cLocalidad
          [] key \in {Lower(cResultado),
                      <<"r", "e", "s", "u", "l", "t", "a", "d", "o", "_", "c", "o", "n",
                        "_", "i", "n", "c", "e", "r", "t", "i", "d", "u", "m", "b", "r",
                        "e">>} -> cResultado
          [] key = Lower(cFecha) -> cFecha
          [] key \in {Lower(cHora), <<"t", "i", "m", "e">>} -> cHora
          [] key \in {<<"n", "o", "m", "b", "r", "e", "a", "r", "c", "h", "i", "v", "o">>,
                      <<"n", "o", "m", "b", "r", "e", "_", "a", "r", "c", "h", "i", "v", "o">>,
                      <<"a", "r", "c", "h", "i", "v", "o">>} -> cNombreArchivo
          [] key = Lower(cExpediente) -> cExpediente
          [] key \in {Lower(cSonda),
                      <<"s", "o", "n", "d", "a", "_", "u", "t", "i", "l", "i", "z", "a",
                        "d", "a">>} -> cSonda
          [] key \in {Lower(cLat), <<"l", "a", "t", "i", "t", "u", "d">>} -> cLat
          [] key \in {Lower(cLon), <<"l", "o", "n", "g", "i", "t", "u", "d">>} -> cLon
          [] key \in {Lower(cFechaCarga),
                      <<"f", "e", "c", "h", "a", "_", "c", "a", "r", "g", "a">>} -> cFechaCarga
          [] OTHER -> c

\* the missing expected columns, created as NaN
RECURSIVE WithExpected(_, _)
WithExpected(df, k) ==
    IF k > Len(EXPECTED_COLS) THEN df
    ELSE WithExpected(IF EXPECTED_COLS[k] \in Range(df.cols) THEN df
                      ELSE SetCol(df, EXPECTED_COLS[k], LAMBDA r : NaN), k + 1)

\* a faulty variant of the load: the Hora column is coerced and lost
load_sin_hora(dbv) ==
    IF dbv.estado # "tabla" THEN EmptyDF
    ELSE SetCol(WithExpected(
                    RenameCols(dbv.df, [c \in Range(dbv.df.cols) |-> CanonicalOf(c)]), 1),
                cHora, LAMBDA r : NaN)

load_tabla_maestra_from_db(dbv) ==
    IF dbv.estado # "tabla" THEN EmptyDF
    ELSE WithExpected(
            RenameCols(dbv.df, [c \in Range(dbv.df.cols) |-> CanonicalOf(c)]), 1)

\* The top of the script: the table is loaded when the session's is empty.
StartupLoad(tm, dbv) ==
    IF IsEmpty(tm) THEN load_tabla_maestra_from_db(dbv) ELSE tm

(***************************************************************************)
(* The handlers                                                            *)
(***************************************************************************)

\* a message shown to the user; cuenta is <<n>> when its text has a count
Msg(level, kind, cuenta) == [level |-> level, kind |-> kind, cuenta |-> cuenta]

NoRet == [raised |-> FALSE, df_proc |-> EmptyDF, resumen_df |-> <<>>, avisos |-> <<>>]

NoMeta == [ccte |-> <<>>, provincia |-> <<>>, localidad |-> <<>>, expediente |-> <<>>]

\* the record of an operation: what it was given, whether an exception left
\* it, what procesar_archivos returned, how the write ended ("none": no
\* write was issued) and the messages it showed
Op(op, files, meta, nombre, raised, ret, write, msgs) ==
    [op |-> op, files |-> files, meta |-> meta, nombre |-> nombre,
     raised |-> raised, ret |-> ret, write |-> write, msgs |-> msgs]

\* a session that has run no script yet: its table, the origins of its rows,
\* its uploader_key and how the write of its last operation ended
SinSesion == [tm |-> EmptyDF, origen |-> <<>>, uploader_key |-> 0, write |-> "none"]

Init ==
    /\ tabla_maestra = EmptyDF
    /\ db = [estado |-> "sin_archivo", df |-> EmptyDF]
    /\ uploader_key = 0
    /\ clock = 0
    /\ last = Op("init", <<>>, NoMeta, <<>>, FALSE, NoRet, "none", <<>>)
    /\ origen = [tm |-> <<>>, db |-> <<>>]
    /\ otra = SinSesion

(***************************************************************************)
(* The history variable origen: for every row of tabla_maestra (tm) and of *)
(* the stored table (db), the pair <<instant of the ingestion, file>> the   *)
(* row was contributed by.  The program keeps no such record.              *)
(***************************************************************************)

\* the rows every file contributes when it is accepted
FilasDe ==
    [id \in FileIds, meta \in Metas |->
        Len(procesar_archivo(Archivo(id), meta.ccte, meta.provincia, meta.localidad,
                             meta.expediente).df.rows)]

\* the origins of the rows of a batch merged at the instant now
RECURSIVE OrigenLote(_, _, _)
OrigenLote(files, meta, now) ==
    IF Len(files) = 0 THEN <<>>
    ELSE [k \in 1..FilasDe[Head(files), meta] |-> <<now, Head(files)>>]
         \o OrigenLote(Tail(files), meta, now)

\* the origins of the table a script run starts with (StartupLoad)
OrigenInicio(tm, o) == IF IsEmpty(tm) THEN o.db ELSE o.tm

\* the elements of o at the positions idx
Tomar(o, idx) == [j \in 1..Len(idx) |-> o[idx[j]]]

\* the origins of the rows that a mask does not mark
SinMarcados(o, mask) ==
    Tomar(o, SelectSeq([k \in 1..Len(o) |-> k], LAMBDA k : ~mask[k]))

\* the origins of the stored rows after a write of rows of origins otm
OrigenGuardado(odb, otm, w) ==
    CASE w = "ok" -> otm
      [] w = "falla_durante" -> <<>>
      [] OTHER -> odb

\* after an inline handler that left rows of origins otm in the table
OrigenTras(otm, w) == [tm |-> otm, db |-> OrigenGuardado(origen.db, otm, w)]

\* after a callback that left rows of origins otm and the script run that
\* follows it, which loads the stored table when none is left
OrigenTrasCallback(otm, odb) == [tm |-> IF Len(otm) = 0 THEN odb ELSE otm, db |-> odb]

\* df["Localidad"] == nombre: a boolean for every row
MaskOf(df, nombre) ==
    [i \in 1..Len(df.rows) |-> df.rows[i][cLocalidad] = Txt(nombre)]

\* df[df["Localidad"] == nombre]
RowsOf(df, nombre) == SelectSeq(df.rows, LAMBDA r : r[cLocalidad] = Txt(nombre))

\* df[df["Localidad"] != nombre]
SinLocalidad(df, nombre) == FilterRows(df, LAMBDA r : r[cLocalidad] # Txt(nombre))

\* df.loc[mask, name] = value, cols being the columns afterwards
LocSetCols(df, mask, name, value, cols) ==
    [cols |-> cols,
     rows |-> [i \in 1..Len(df.rows) |->
                  [c \in Range(cols) |->
                      IF c # name THEN df.rows[i][c]
                      ELSE IF mask[i] THEN value
                      ELSE IF name \in DOMAIN df.rows[i] THEN df.rows[i][name]
                      ELSE NaN]]]

\* df.loc[mask, name] = value: a column the frame has not is created
LocSet(df, mask, name, value) ==
    LocSetCols(df, mask, name, value,
               IF name \in Range(df.cols) THEN df.cols ELSE Append(df.cols, name))

\* A script run that no widget triggered.
Rerun ==
    /\ tabla_maestra' = StartupLoad(tabla_maestra, db)
    /\ last' = Op("rerun", <<>>, NoMeta, <<>>, FALSE, NoRet, "none", <<>>)
    /\ origen' = [origen EXCEPT !.tm = OrigenInicio(tabla_maestra, origen)]
    /\ UNCHANGED <<db, uploader_key, clock, otra>>

\* A new browser session on the same store: session_state starts empty and
\* the first script run loads the table.
NewSession ==
    /\ tabla_maestra' = StartupLoad(EmptyDF, db)
    /\ uploader_key' = 0
    /\ last' = Op("session", <<>>, NoMeta, <<>>, FALSE, NoRet, "none", <<>>)
    /\ origen' = [origen EXCEPT !.tm = origen.db]
    /\ UNCHANGED <<db, clock, otra>>

\* a faulty variant of the merge: the whole merged table is stamped
MergedSelladaEntera(tm, df_proc, now) ==
    SetCol(Concat2(tm, df_proc), cFechaCarga, LAMBDA r : Stamp(now))

\* a faulty variant of the merge: the new rows go first
MergedNuevasPrimero(tm, df_proc, now) ==
    Concat2(SetCol(df_proc, cFechaCarga, LAMBDA r : Stamp(now)), tm)

\* The merged table of the upload form: df_proc stamped, after the old rows
Merged(tm, df_proc, now) ==
    Concat2(tm, SetCol(df_proc, cFechaCarga, LAMBDA r : Stamp(now)))

\* the form's handler when procesar_archivos raised (the exception leaves the
\* script run) or gave an empty frame (the warning)
SubmitSinFilas(tm0, meta, ret) ==
    /\ tabla_maestra' = tm0
    /\ last' = Op("submit", <<>>, meta, <<>>, ret.raised, ret, "none",
                  IF ret.raised THEN <<>>
                  ELSE <<Msg("warning", "sin_archivos_validos", <<>>)>>)
    /\ UNCHANGED <<db, uploader_key, clock>>

\* the form's handler from the assignment of the merged table tm1 on: the
\* save is not in a try, so a failed write leaves the run by its exception,
\* before the success message and before uploader_key is advanced
SubmitGuardar(tm1, files, meta, ret, w) ==
    /\ clock < MaxClock
    /\ Len(tm1.rows) <= MaxRows
    /\ clock' = clock + 1
    /\ tabla_maestra' = tm1
    /\ db' = save_tabla_maestra_to_db(db, tm1, w)
    /\ uploader_key' = IF w = "ok" THEN uploader_key + 1 ELSE uploader_key
    /\ last' = Op("submit", <<>>, meta, <<>>, w # "ok", ret, w,
                  IF w = "ok" THEN <<Msg("success", "procesados", <<Len(files)>>)>>
                  ELSE <<>>)

\* `if submit and files:` with the table tm0 of the script run and the
\* result ret of procesar_archivos
SubmitCon(tm0, files, meta, ret, w) ==
    IF ret.raised \/ IsEmpty(ret.df_proc)
    THEN SubmitSinFilas(tm0, meta, ret)
    ELSE SubmitGuardar(Merged(tm0, ret.df_proc, clock + 1), files, meta, ret, w)

\* "Procesar archivos" of carga_form, in a script run (rni_app_v3.2.py)
Submit(files, meta, w) ==
    /\ SubmitCon(StartupLoad(tabla_maestra, db), files, meta, Procesado[files, meta], w)
    /\ origen' = OrigenTras(OrigenInicio(tabla_maestra, origen)
                              \o (IF last'.write = "none" THEN <<>>
                                  ELSE OrigenLote(files, meta, clock')),
                            last'.write)
    /\ UNCHANGED otra

\* a faulty variant of the early return: the table is written all the same
EliminarNadaGuardando(tm0, nombre, msg) ==
    /\ tabla_maestra' = tm0
    /\ db' = save_tabla_maestra_to_db(db, tm0, "ok")
    /\ last' = Op("eliminar", <<>>, NoMeta, nombre, FALSE, NoRet, "ok", <<msg>>)
    /\ UNCHANGED <<uploader_key, clock>>

\* eliminar_localidad returning early with the message msg
EliminarNada(tm0, nombre, msg) ==
    /\ tabla_maestra' = tm0
    /\ last' = Op("eliminar", <<>>, NoMeta, nombre, FALSE, NoRet, "none", <<msg>>)
    /\ UNCHANGED <<db, uploader_key, clock>>

\* eliminar_localidad from the assignment of the filtered table tm1 on: the
\* save is not in a try
EliminarGuardar(tm1, eliminados, nombre, w) ==
    /\ tabla_maestra' = tm1
    /\ db' = save_tabla_maestra_to_db(db, tm1, w)
    /\ last' = Op("eliminar", <<>>, NoMeta, nombre, w # "ok", NoRet, w,
                  IF w = "ok" THEN <<Msg("success", "eliminada", <<eliminados>>)>>
                  ELSE <<>>)
    /\ UNCHANGED <<uploader_key, clock>>

\* eliminar_localidad(nombre_localidad) on the table tm0 of the script run
EliminarDe(tm0, nombre, w) ==
    IF IsEmpty(tm0)
    THEN EliminarNada(tm0, nombre, Msg("warning", "no_hay_datos", <<>>))
    ELSE IF cLocalidad \notin Range(tm0.cols)
    THEN EliminarNada(tm0, nombre, Msg("error", "sin_columna_localidad", <<>>))
    ELSE IF Len(RowsOf(tm0, nombre)) = 0
    THEN EliminarNada(tm0, nombre, Msg("info", "no_se_encontro", <<>>))
    ELSE EliminarGuardar(SinLocalidad(tm0, nombre), Len(RowsOf(tm0, nombre)), nombre, w)

\* after eliminar_localidad on the table tm0, whose rows have the origins o0
OrigenEliminar(tm0, o0, nombre, w) ==
    OrigenTras(IF w = "none" THEN o0 ELSE SinMarcados(o0, MaskOf(tm0, nombre)), w)

\* eliminar_localidad(nombre_localidad), called in a script run
EliminarLocalidad(nombre, w) ==
    \E tm0 \in {StartupLoad(tabla_maestra, db)} :
        /\ EliminarDe(tm0, nombre, w)
        /\ origen' = OrigenEliminar(tm0, OrigenInicio(tabla_maestra, origen), nombre,
                                    last'.write)
        /\ UNCHANGED otra

\* a faulty variant of the edit: the assignments go to every row
EditadaTodas(tm, mask, meta, now) ==
    LocSet(LocSet(LocSet(LocSet(LocSet(tm,
        [i \in DOMAIN mask |-> TRUE], cCCTE, Txt(meta.ccte)),
        [i \in DOMAIN mask |-> TRUE], cProvincia, Txt(meta.provincia)),
        [i \in DOMAIN mask |-> TRUE], cLocalidad, Txt(meta.localidad)),
        [i \in DOMAIN mask |-> TRUE], cExpediente, Txt(meta.expediente)),
        [i \in DOMAIN mask |-> TRUE], cFechaCarga, Stamp(now))

\* a faulty variant of the edit: the assignments reach the first marked row only
EditadaSoloPrimera(tm, mask, meta, now) ==
    LocSet(LocSet(LocSet(LocSet(LocSet(tm,
        [i \in DOMAIN mask |-> mask[i] /\ \A j \in 1..(i - 1) : ~mask[j]],
            cCCTE, Txt(meta.ccte)),
        [i \in DOMAIN mask |-> mask[i] /\ \A j \in 1..(i - 1) : ~mask[j]],
            cProvincia, Txt(meta.provincia)),
        [i \in DOMAIN mask |-> mask[i] /\ \A j \in 1..(i - 1) : ~mask[j]],
            cLocalidad, Txt(meta.localidad)),
        [i \in DOMAIN mask |-> mask[i] /\ \A j \in 1..(i - 1) : ~mask[j]],
            cExpediente, Txt(meta.expediente)),
        [i \in DOMAIN mask |-> mask[i] /\ \A j \in 1..(i - 1) : ~mask[j]],
            cFechaCarga, Stamp(now))

\* The table after the five assignments of guardar_cambios; mask is computed
\* once, before the first of them
Editada(tm, mask, meta, now) ==
    LocSet(LocSet(LocSet(LocSet(LocSet(tm,
        mask, cCCTE, Txt(meta.ccte)),
        mask, cProvincia, Txt(meta.provincia)),
        mask, cLocalidad, Txt(meta.localidad)),
        mask, cExpediente, Txt(meta.expediente)),
        mask, cFechaCarga, Stamp(now))

\* a callback that has left the table tm1 and the store db1, and the script
\* run that follows it
TrasCallback(tm1, db1, op, meta, nombre, w, msg) ==
    /\ db' = db1
    /\ tabla_maestra' = StartupLoad(tm1, db1)
    /\ last' = Op(op, <<>>, meta, nombre, FALSE, NoRet, w, <<msg>>)

\* the try of guardar_cambios: the save, then st.success or st.error
GuardarEditada(tm1, localidad_actual, meta, w) ==
    TrasCallback(tm1, save_tabla_maestra_to_db(db, tm1, w), "guardar", meta,
                 localidad_actual, w,
                 IF w = "ok" THEN Msg("success", "cambios_guardados", <<>>)
                 ELSE Msg("error", "no_se_pudieron_guardar", <<>>))

\* guardar_cambios, the on_click callback of the expander, and the script
\* run that follows it.  The expander is drawn over a table with rows;
\* localidad_actual is the value the callback was rendered with; meta holds
\* nuevo_ccte, nueva_provincia, nueva_localidad and nuevo_expediente.
GuardarCambios(localidad_actual, meta, w) ==
    /\ ~IsEmpty(tabla_maestra)
    /\ cLocalidad \in Range(tabla_maestra.cols)
    /\ clock < MaxClock
    /\ clock' = clock + 1
    /\ GuardarEditada(Editada(tabla_maestra, MaskOf(tabla_maestra, localidad_actual),
                              meta, clock + 1),
                      localidad_actual, meta, w)
    /\ origen' = OrigenTrasCallback(origen.tm, OrigenGuardado(origen.db, origen.tm, w))
    /\ UNCHANGED <<uploader_key, otra>>

\* `if mask.any()` of eliminar_localidad_cb: the rows are dropped and the
\* save is in a try, then st.success or st.error
CbGuardar(tm1, localidad_actual, w) ==
    TrasCallback(tm1, save_tabla_maestra_to_db(db, tm1, w), "eliminar_cb", NoMeta,
                 localidad_actual, w,
                 IF w = "ok" THEN Msg("success", "eliminada", <<>>)
                 ELSE Msg("error", "no_se_pudo_eliminar", <<>>))

\* eliminar_localidad_cb, the other callback of the expander, and the script
\* run that follows it
EliminarLocalidadCb(localidad_actual, w) ==
    /\ ~IsEmpty(tabla_maestra)
    /\ cLocalidad \in Range(tabla_maestra.cols)
    /\ IF Len(RowsOf(tabla_maestra, localidad_actual)) > 0
       THEN CbGuardar(SinLocalidad(tabla_maestra, localidad_actual), localidad_actual, w)
       ELSE TrasCallback(tabla_maestra, db, "eliminar_cb", NoMeta, localidad_actual,
                         "none", Msg("warning", "no_se_encontro", <<>>))
    /\ origen' = OrigenTrasCallback(
                     SinMarcados(origen.tm, MaskOf(tabla_maestra, localidad_actual)),
                     OrigenGuardado(origen.db,
                                    SinMarcados(origen.tm, MaskOf(tabla_maestra, localidad_actual)),
                                    last'.write))
    /\ UNCHANGED <<uploader_key, clock, otra>>

\* the form contents of the store model: the ones that name a locality
Formularios == {m \in Metas : Len(m.localidad) > 0}

\* the texts the locality arguments are drawn from
Localidades == {m.localidad : m \in Formularios}

\* the files the upload form of the store model is given
UploadFiles == {"a", "e"}

Uploads == {b \in Batches : Range(b) \subseteq UploadFiles}

Next ==
    \/ Rerun
    \/ NewSession
    \/ \E files \in Uploads, meta \in Formularios, w \in WriteOutcomes :
           Submit(files, meta, w)
    \/ \E nombre \in Localidades, w \in WriteOutcomes :
           EliminarLocalidad(nombre, w)
    \/ \E l \in Localidades, meta \in Formularios, w \in WriteOutcomes :
           GuardarCambios(l, meta, w)
    \/ \E l \in Localidades, w \in WriteOutcomes :
           EliminarLocalidadCb(l, w)

Spec == Init /\ [][Next]_vars

\* The same store under other uploads: one of two files that are both
\* accepted, one none of whose files is accepted (an unreadable file and one
\* without Fecha) and one that makes procesar_archivos raise
Lotes == {<<"b", "f">>, <<"d", "c">>, <<"e">>}

NextLotes ==
    \/ Rerun
    \/ NewSession
    \/ \E files \in Lotes, meta \in Formularios, w \in WriteOutcomes :
           Submit(files, meta, w)
    \/ \E nombre \in Localidades, w \in WriteOutcomes :
           EliminarLocalidad(nombre, w)
    \/ \E l \in Localidades, meta \in Formularios, w \in WriteOutcomes :
           GuardarCambios(l, meta, w)
    \/ \E l \in Localidades, w \in WriteOutcomes :
           EliminarLocalidadCb(l, w)

SpecLotes == Init /\ [][NextLotes]_vars

(***************************************************************************)
(* The duration of record sets: the record set is drawn at the start and   *)
(* calcular_tiempo_total_por_archivo is applied to it.                     *)
(***************************************************************************)

\* the values of the three columns the function reads
ArchivosT == <<Txt(<<"x">>), Txt(<<"y">>)>>
FechasT == <<Date(2024, 1, 8), Date(2024, 1, 9)>>
HorasT == <<NaN, Time(1, 0, 0), Time(9, 0, 0), Time(10, 0, 0), Time(17, 0, 0),
            Time(23, 0, 0)>>

\* the k-th of the rows that can be made of them
FilaT(k) ==
    [c \in {cNombreArchivo, cFecha, cHora} |->
        CASE c = cNombreArchivo ->
                 ArchivosT[((k - 1) \div (Len(FechasT) * Len(HorasT))) + 1]
          [] c = cFecha -> FechasT[(((k - 1) \div Len(HorasT)) % Len(FechasT)) + 1]
          [] OTHER -> HorasT[((k - 1) % Len(HorasT)) + 1]]

FilasT == Len(ArchivosT) * Len(FechasT) * Len(HorasT)

\* the increasing sequences of at most n numbers of lo..FilasT
RECURSIVE Crecientes(_, _)
Crecientes(n, lo) ==
    {<<>>} \cup
    (IF n = 0 THEN {}
     ELSE UNION {{<<i>> \o t : t \in Crecientes(n - 1, i + 1)} : i \in lo..FilasT})

\* the record sets of at most n different rows
Registros(n) ==
    {[cols |-> <<cNombreArchivo, cFecha, cHora>>,
      rows |-> [j \in 1..Len(idx) |-> FilaT(idx[j])]] : idx \in Crecientes(n, 1)}

InitTiempo ==
    /\ tabla_maestra = EmptyDF
    /\ db = [estado |-> "sin_archivo", df |-> EmptyDF]
    /\ uploader_key = 0
    /\ clock = 0
    /\ origen = [tm |-> <<>>, db |-> <<>>]
    /\ otra = SinSesion
    /\ \E df \in Registros(MaxFilas) : last = [op |-> "registros", df |-> df]

\* a call of calcular_tiempo_total_por_archivo(df)
CalcularTiempo ==
    /\ last.op = "registros"
    /\ last' = [op |-> "tiempo", df |-> last.df,
                total |-> calcular_tiempo_total_por_archivo(last.df)]
    /\ UNCHANGED <<tabla_maestra, db, uploader_key, clock, origen, otra>>

SpecTiempo == InitTiempo /\ [][CalcularTiempo]_vars

(***************************************************************************)
(* The field coercions on texts: a cell is drawn at the start, built from  *)
(* its parts, and parse_dms_to_decimal or extract_numeric_from_text is     *)
(* applied to it.                                                          *)
(***************************************************************************)

\* the parts of a coordinate: a sign, the degrees, the way it is written
\* ("blancos": 34 36 12 S; "simbolos": 34^36'12"S, ^ standing for the degree
\* sign; "punto": 58.4 W; "coma": 58,4 W) and a hemisphere letter
PartesCoord ==
    [clase : {"coord"}, signo : {<<>>, <<"-">>}, grados : {34, 58},
     estilo : {"blancos", "simbolos", "punto", "coma"},
     hemi : {<<>>} \cup {<<h>> : h \in HemiLetters}]

\* the text of a coordinate of 36 minutes and 12 seconds, or of 4 tenths
TextoCoord(p) ==
    p.signo \o NatStr(p.grados) \o
    (CASE p.estilo = "blancos" ->
              <<" ", "3", "6", " ", "1", "2">>
              \o (IF p.hemi = <<>> THEN <<>> ELSE <<" ">> \o p.hemi)
       [] p.estilo = "simbolos" -> <<"^", "3", "6", "'", "1", "2", "\"">> \o p.hemi
       [] p.estilo = "punto" ->
              <<".", "4">> \o (IF p.hemi = <<>> THEN <<>> ELSE <<" ">> \o p.hemi)
       [] OTHER ->
              <<",", "4">> \o (IF p.hemi = <<>> THEN <<>> ELSE <<" ">> \o p.hemi))

\* the parts of a text with a number: what precedes it, its sign, its digits,
\* its fraction written with a point or a comma, its exponent, what follows
PartesNum ==
    [clase : {"num"},
     antes : {<<>>, <<"E", "=">>},
     signo : {<<>>, <<"-">>, <<"+">>},
     entero : {[s |-> <<"3">>, v |-> 3], [s |-> <<"1", "2">>, v |-> 12]},
     fraccion : {[s |-> <<>>, n |-> 0, d |-> 1],
                 [s |-> <<".", "5">>, n |-> 5, d |-> 10],
                 [s |-> <<",", "0", "7">>, n |-> 7, d |-> 100]},
     exponente : {[s |-> <<>>, por |-> 1, entre |-> 1],
                  [s |-> <<"e", "2">>, por |-> 100, entre |-> 1],
                  [s |-> <<"E", "-", "1">>, por |-> 1, entre |-> 10]},
     despues : {<<>>, <<" ", "V", "/", "m">>, <<";", "7">>}]

TextoNum(p) ==
    p.antes \o p.signo \o p.entero.s \o p.fraccion.s \o p.exponente.s \o p.despues

\* cells without a digit: texts and the missing value
PartesSinDigitos ==
    [clase : {"sin_digitos"},
     celda : {Txt(<<>>), Txt(<<"N", "/", "D">>), Txt(<<"-">>), Txt(<<"a", ",", "b">>), NaN}]

Partes == PartesCoord \cup PartesNum \cup PartesSinDigitos

CeldaDe(p) ==
    CASE p.clase = "coord" -> Txt(TextoCoord(p))
      [] p.clase = "num" -> Txt(TextoNum(p))
      [] OTHER -> p.celda

InitTexto ==
    /\ tabla_maestra = EmptyDF
    /\ db = [estado |-> "sin_archivo", df |-> EmptyDF]
    /\ uploader_key = 0
    /\ clock = 0
    /\ origen = [tm |-> <<>>, db |-> <<>>]
    /\ otra = SinSesion
    /\ \E p \in Partes : last = [op |-> "celda", partes |-> p, val |-> CeldaDe(p)]

\* a call of parse_dms_to_decimal(val)
ParseDms ==
    /\ last.op = "celda"
    /\ last' = [op |-> "parse_dms", partes |-> last.partes, val |-> last.val,
                ret |-> parse_dms_to_decimal(last.val)]
    /\ UNCHANGED <<tabla_maestra, db, uploader_key, clock, origen, otra>>

\* extract_numeric_from_text on a series with the one cell val
ExtractNumeric ==
    /\ last.op = "celda"
    /\ last' = [op |-> "extract", partes |-> last.partes, val |-> last.val,
                ret |-> extract_numeric_from_text(last.val)]
    /\ UNCHANGED <<tabla_maestra, db, uploader_key, clock, origen, otra>>

NextTexto == ParseDms \/ ExtractNumeric

SpecTexto == InitTexto /\ [][NextTexto]_vars

\* the record of a call of procesar_archivos that ended as ret
Procesada(files, meta, ret) ==
    Op("procesar", files, meta, <<>>, ret.raised, ret, "none", <<>>)

\* procesar_archivos alone, on every batch and every form content: one call,
\* since the function keeps nothing from a call to the next
Procesar(files, meta) ==
    /\ last.op = "init"
    /\ last' = Procesada(files, meta, Procesado[files, meta])
    /\ UNCHANGED <<tabla_maestra, db, uploader_key, clock, origen, otra>>

NextProc == \E files \in Batches, meta \in Metas : Procesar(files, meta)

SpecProc == Init /\ [][NextProc]_vars

(***************************************************************************)
(* Properties of procesar_archivos (under SpecProc)                        *)
(***************************************************************************)

Obligatorios == {cFecha, cHora, cResultado, cSonda}

\* the file is readable and some mandatory field matches none of its headers
SinObligatorio(id) ==
    /\ Archivo(id).readable
    /\ \E key \in Obligatorios :
           \A k \in 1..Len(Archivo(id).headers) :
               ~MatchesAny(Archivo(id).headers[k], mapping_candidates(key))

\* the values of the column Nombre Archivo in a frame
NombresEn(df) == {df.rows[i][cNombreArchivo] : i \in 1..Len(df.rows)}

\* the call recorded in last returned
Devuelto == last.op = "procesar" /\ ~last.raised

\* C1: a file of the batch with a mandatory field that matches none of its
\* headers is rejected entirely: the returned records hold no row of it and
\* the returned summary has no row for it.
C1_RechazoCompleto ==
    Devuelto =>
        \A k \in 1..Len(last.files) :
            SinObligatorio(last.files[k]) =>
                /\ Txt(Archivo(last.files[k]).name) \notin NombresEn(last.ret.df_proc)
                /\ \A j \in 1..Len(last.ret.resumen_df) :
                       last.ret.resumen_df[j].archivo # Txt(Archivo(last.files[k]).name)

\* a batch with such a file between two files whose rows are returned
C1_Witness ==
    /\ Devuelto
    /\ Len(last.files) = 3
    /\ SinObligatorio(last.files[2])
    /\ Cardinality(NombresEn(last.ret.df_proc)) = 2

\* what one turn of the loop makes of the file id under the form contents meta
Normalizado(id, meta) == Turnos[id, meta]

\* the files of the batch that are accepted, in the order of the batch
Aceptados(files, meta) ==
    SelectSeq(files, LAMBDA id : Normalizado(id, meta).outcome = "ok")

\* C2: a file that cannot be read or lacks a mandatory column is the only one
\* skipped: the records returned are the concatenation, in the order of the
\* batch, of the normalized rows of the accepted files, wherever the failing
\* files sit.
C2_SoloSeOmiteElArchivo ==
    Devuelto =>
        last.ret.df_proc =
            ConcatAll([k \in 1..Len(Aceptados(last.files, last.meta)) |->
                          Normalizado(Aceptados(last.files, last.meta)[k], last.meta).df])

\* a batch whose first file fails and whose other two files are accepted
C2_Witness ==
    /\ Devuelto
    /\ Len(last.files) = 3
    /\ Normalizado(last.files[1], last.meta).outcome \in {"unreadable", "missing"}
    /\ Len(Aceptados(last.files, last.meta)) = 2
    /\ Len(last.ret.df_proc.rows) = 3

\* C3: procesar_archivos never raises: every call ends by returning its pair,
\* also for a readable file with every mandatory header and no surviving row.
C3_NuncaLanza == last.op = "procesar" => ~last.raised

(***************************************************************************)
(* Properties of the master table and its store (under Spec)               *)
(***************************************************************************)

Mutaciones == {"submit", "eliminar", "eliminar_cb", "guardar"}

Fallas == WriteOutcomes \ {"ok"}

\* C4: a structural mutation whose write fails does not raise and shows a
\* warning or an error.
C4_FallaAvisada ==
    (last.op \in Mutaciones /\ last.write \in Fallas) =>
        /\ ~last.raised
        /\ \E k \in 1..Len(last.msgs) : last.msgs[k].level \in {"warning", "error"}

\* C5: after a structural mutation whose write succeeded the store holds
\* exactly the rows of the table in memory (dates, times and timestamps as the
\* text the store keeps for them).
C5_PersistidoIgualMemoria ==
    (last.op \in Mutaciones /\ last.write = "ok") =>
        /\ db.estado = "tabla"
        /\ db.df.rows = to_sql(tabla_maestra).rows

\* the third mutation of a run has been written and the table has rows
C5_Witness ==
    /\ last.op \in Mutaciones
    /\ last.write = "ok"
    /\ clock = 3
    /\ Len(tabla_maestra.rows) > 0
    /\ db.df.rows = to_sql(tabla_maestra).rows

\* C6: a write that fails leaves the store with what it held before.
C6_EscrituraAtomica == [][last'.write \in Fallas => db' = db]_vars

\* the rows of a sequence that come from the file called nombre
DeArchivo(rows, nombre) == SelectSeq(rows, LAMBDA r : r[cNombreArchivo] = nombre)

\* C7: the merge of a non-empty batch keeps the rows the table had, in their
\* order, and puts the new rows after them in their order; nothing is
\* deduplicated, so the rows of a file that is ingested again are added again.
C7_Concatenacion ==
    [][(last'.op = "submit" /\ last'.write # "none") =>
        LET old == StartupLoad(tabla_maestra, db).rows
            new == last'.ret.df_proc.rows
            now == tabla_maestra'.rows
        IN  /\ Len(new) > 0
            /\ Len(now) = Len(old) + Len(new)
            /\ \A i \in 1..Len(old) : \A c \in DOMAIN old[i] : now[i][c] = old[i][c]
            /\ \A j \in 1..Len(new) :
                   \A c \in DOMAIN new[j] : now[Len(old) + j][c] = new[j][c]
            /\ \A j \in 1..Len(new) :
                   Len(DeArchivo(now, new[j][cNombreArchivo]))
                       = Len(DeArchivo(old, new[j][cNombreArchivo]))
                         + Len(DeArchivo(new, new[j][cNombreArchivo]))]_vars

\* the same file has been ingested twice: its rows are in the table twice
C7_Witness ==
    /\ last.op = "submit"
    /\ last.write = "ok"
    /\ Len(last.ret.df_proc.rows) = 2
    /\ Len(tabla_maestra.rows) = 4
    /\ Cardinality(NombresEn(tabla_maestra)) = 1

Borrados == {"eliminar", "eliminar_cb"}

\* C8: the delete of a locality that has rows removes exactly the rows whose
\* Localidad is that text, keeps the others as they were and in their order,
\* persists the table and reports the number of rows removed.
C8_EliminaEInforma ==
    [][(last'.op \in Borrados /\ last'.write = "ok") =>
        LET tm0 == StartupLoad(tabla_maestra, db)
        IN  /\ tabla_maestra'.rows =
                   SelectSeq(tm0.rows, LAMBDA r : r[cLocalidad] # Txt(last'.nombre))
            /\ db'.df.rows = to_sql(tabla_maestra').rows
            /\ \E k \in 1..Len(last'.msgs) :
                   last'.msgs[k].cuenta = <<Len(RowsOf(tm0, last'.nombre))>>]_vars

\* C9: the delete of a locality that no row carries changes nothing: the
\* table in memory is the one the script run had, nothing is written, and one
\* message that is no error and no success tells that nothing was found.
C9_EliminarInexistente ==
    [][(last'.op \in Borrados
        /\ Len(RowsOf(StartupLoad(tabla_maestra, db), last'.nombre)) = 0) =>
            /\ tabla_maestra' = StartupLoad(tabla_maestra, db)
            /\ db' = db
            /\ last'.write = "none"
            /\ ~last'.raised
            /\ Len(last'.msgs) = 1
            /\ last'.msgs[1].level \in {"info", "warning"}
            /\ last'.msgs[1].kind \in {"no_se_encontro", "no_hay_datos"}
            /\ last'.msgs[1].cuenta = <<>>]_vars

\* a table whose rows are all of Once is asked to delete once
C9_Witness ==
    /\ last.op \in Borrados
    /\ last.nombre = tonce
    /\ last.write = "none"
    /\ Len(tabla_maestra.rows) > 0
    /\ \A i \in 1..Len(tabla_maestra.rows) : tabla_maestra.rows[i][cLocalidad] = Txt(tOnce)

EditCols == {cCCTE, cProvincia, cLocalidad, cExpediente, cFechaCarga}

\* C10: the edit of the locality L gives every row whose Localidad is L the
\* same new CCTE, Provincia, Localidad and Expediente and one new FechaCarga,
\* leaves the other rows and the other fields as they were, keeps the number
\* and the order of the rows, and the table is persisted afterwards.
C10_EdicionEnBloque ==
    [][last'.op = "guardar" =>
        LET old == tabla_maestra.rows
            now == tabla_maestra'.rows
        IN  /\ Len(now) = Len(old)
            /\ clock' > clock
            /\ \A i \in 1..Len(old) :
                   IF old[i][cLocalidad] = Txt(last'.nombre)
                   THEN /\ now[i][cCCTE] = Txt(last'.meta.ccte)
                        /\ now[i][cProvincia] = Txt(last'.meta.provincia)
                        /\ now[i][cLocalidad] = Txt(last'.meta.localidad)
                        /\ now[i][cExpediente] = Txt(last'.meta.expediente)
                        /\ now[i][cFechaCarga] = Stamp(clock')
                        /\ \A c \in DOMAIN old[i] \ EditCols : now[i][c] = old[i][c]
                   ELSE \A c \in DOMAIN old[i] : now[i][c] = old[i][c]
            /\ last'.write = "ok" => db'.df.rows = to_sql(tabla_maestra').rows]_vars

\* an edit has stamped some rows of the table and left others
C10_Witness ==
    /\ last.op = "guardar"
    /\ last.write = "ok"
    /\ \E i \in 1..Len(tabla_maestra.rows) :
           tabla_maestra.rows[i][cFechaCarga] = Stamp(clock)
    /\ \E i \in 1..Len(tabla_maestra.rows) :
           /\ tabla_maestra.rows[i][cFechaCarga] # Stamp(clock)
           /\ tabla_maestra.rows[i][cLocalidad] # Txt(last.meta.localidad)

(***************************************************************************)
(* Properties of the upload form (under SpecLotes)                         *)
(***************************************************************************)

\* C11: the merge gives every row of the new batch, whatever file it comes
\* from, one and the same FechaCarga, the instant of the merge, and leaves the
\* FechaCarga of the rows the table already had as it was.
C11_UnaFechaCarga ==
    [][(last'.op = "submit" /\ last'.write # "none") =>
        LET old == StartupLoad(tabla_maestra, db).rows
            now == tabla_maestra'.rows
        IN  /\ Len(now) > Len(old)
            /\ clock' = clock + 1
            /\ \A j \in (Len(old) + 1)..Len(now) : now[j][cFechaCarga] = Stamp(clock')
            /\ \A i \in 1..Len(old) :
                   /\ cFechaCarga \in DOMAIN old[i]
                   /\ now[i][cFechaCarga] = old[i][cFechaCarga]]_vars

\* a batch of two files has been merged into a table that had rows of an
\* earlier instant
C11_Witness ==
    /\ last.op = "submit"
    /\ last.write = "ok"
    /\ Cardinality({tabla_maestra.rows[i][cNombreArchivo] :
                       i \in {k \in 1..Len(tabla_maestra.rows) :
                                 tabla_maestra.rows[k][cFechaCarga] = Stamp(clock)}}) = 2
    /\ \E i \in 1..Len(tabla_maestra.rows) :
           tabla_maestra.rows[i][cFechaCarga] \notin {Stamp(clock), NaN}

\* the form contents and the outcome of procesar_archivos for the batches of
\* the form none of whose files is accepted
SinAceptados ==
    {<<meta, Procesado[files, meta]>> :
        <<files, meta>> \in {x \in Lotes \X Formularios : Len(Aceptados(x[1], x[2])) = 0}}

\* C14: a submit of a batch none of whose files is normalised gets an empty
\* frame and an empty summary from procesar_archivos, without an exception;
\* the table is the one the script run started with, the store and
\* uploader_key are as they were, no write is issued, and the user is warned
\* that no valid file was processed.
C14_LoteVacio ==
    [][(last'.op = "submit" /\ <<last'.meta, last'.ret>> \in SinAceptados) =>
        /\ ~last'.raised
        /\ ~last'.ret.raised
        /\ last'.ret.df_proc = EmptyDF
        /\ last'.ret.resumen_df = <<>>
        /\ tabla_maestra' = StartupLoad(tabla_maestra, db)
        /\ db' = db
        /\ uploader_key' = uploader_key
        /\ last'.write = "none"
        /\ last'.msgs = <<Msg("warning", "sin_archivos_validos", <<>>)>>]_vars

(***************************************************************************)
(* Properties of the rows of the master table (under Spec)                 *)
(***************************************************************************)

\* the fields that the form gives to every row of a file
CamposDeArchivo == {cCCTE, cProvincia, cLocalidad, cExpediente, cNombreArchivo}

\* the rows of one origin agree on the fields of the form
UniformePorOrigen(rows, o) ==
    /\ Len(o) = Len(rows)
    /\ \A i, j \in 1..Len(rows) :
           o[i] = o[j] => \A c \in CamposDeArchivo : rows[i][c] = rows[j][c]

\* C12: in the table of the session and in the stored table, whatever uploads,
\* deletions and edits of a locality came before, the rows that one file
\* contributed in one ingestion have the same CCTE, Provincia, Localidad,
\* Expediente and Nombre Archivo.
C12_UniformePorArchivo ==
    /\ UniformePorOrigen(tabla_maestra.rows, origen.tm)
    /\ UniformePorOrigen(db.df.rows, origen.db)

\* an edit has given another locality to two rows that one file contributed
\* in an upload later than the first instant, and the table is stored
C12_Witness ==
    /\ last.op = "guardar"
    /\ last.write = "ok"
    /\ last.meta.localidad # last.nombre
    /\ \E i, j \in 1..Len(tabla_maestra.rows) :
           /\ i # j
           /\ origen.tm[i] = origen.tm[j]
           /\ origen.tm[i][1] > 1
           /\ tabla_maestra.rows[i][cLocalidad] = Txt(last.meta.localidad)
           /\ tabla_maestra.rows[i][cFechaCarga] = Stamp(clock)
    /\ Len(db.df.rows) = Len(tabla_maestra.rows)

\* the columns that hold what a file measured
MedCols == {cFecha, cHora, cResultado, cSonda, cLat, cLon, cNombreArchivo}

\* the value of a field of a row as the store keeps it; a column the frame
\* has not is a missing value
Campo(r, c) == IF c \in DOMAIN r THEN to_sql_cell(r[c]) ELSE NaN

\* the rows the session's table and the stored table hold
Previas == Range(tabla_maestra.rows) \cup Range(db.df.rows)

\* in a step, the row r1 is the row r0 with guardar_cambios' five assignments
EditadaDe(r1, r0) ==
    /\ last'.op = "guardar"
    /\ Campo(r0, cLocalidad) = Txt(last'.nombre)
    /\ Campo(r1, cCCTE) = Txt(last'.meta.ccte)
    /\ Campo(r1, cProvincia) = Txt(last'.meta.provincia)
    /\ Campo(r1, cLocalidad) = Txt(last'.meta.localidad)
    /\ Campo(r1, cExpediente) = Txt(last'.meta.expediente)
    /\ Campo(r1, cFechaCarga) = to_sql_cell(Stamp(clock'))

\* in a step, the row r1 is a row that was there before, with its measured
\* fields as they were and the other five either as they were or edited
Conservada(r1) ==
    \E r0 \in Previas :
        /\ \A c \in MedCols : Campo(r1, c) = Campo(r0, c)
        /\ \/ \A c \in EditCols : Campo(r1, c) = Campo(r0, c)
           \/ EditadaDe(r1, r0)

\* C13: in every step (upload, deletion of a locality by either button, edit
\* of a locality, script run or new session that loads the stored table)
\* every row of the table and of the store afterwards, other than the rows
\* the upload has just appended, is a row that was in the table or the store
\* before, with the same Fecha, Hora, Resultado, Sonda, Lat, Lon and Nombre
\* Archivo, and with CCTE, Provincia, Localidad, Expediente and FechaCarga
\* either as they were or set by the edit of its locality.  Values are
\* compared as the store keeps them.
C13_MedicionesIntactas ==
    [][
        /\ \A i \in 1..Len(tabla_maestra'.rows) :
              \/ /\ last'.op = "submit"
                 /\ last'.write # "none"
                 /\ i > Len(StartupLoad(tabla_maestra, db).rows)
              \/ Conservada(tabla_maestra'.rows[i])
        /\ \A i \in 1..Len(db'.df.rows) :
              \/ /\ last'.op = "submit"
                 /\ last'.write = "ok"
                 /\ i > Len(StartupLoad(tabla_maestra, db).rows)
              \/ Conservada(db'.df.rows[i])
    ]_vars

\* a new session has loaded stored rows of two instants, with their times
C13_Witness ==
    /\ last.op = "session"
    /\ \E i, j \in 1..Len(tabla_maestra.rows) :
           /\ tabla_maestra.rows[i][cFechaCarga] # tabla_maestra.rows[j][cFechaCarga]
           /\ tabla_maestra.rows[i][cHora] # NaN
           /\ tabla_maestra.rows[i][cFecha] # NaN
    /\ tabla_maestra.rows = db.df.rows

(***************************************************************************)
(* Properties of calcular_tiempo_total_por_archivo (under SpecTiempo)      *)
(***************************************************************************)

\* the (Nombre Archivo, Fecha) groups of a record set with a Hora that is
\* not null
GruposConHora(df) ==
    {<<df.rows[i][cNombreArchivo], df.rows[i][cFecha]>> :
        i \in {k \in 1..Len(df.rows) : ~IsNa(df.rows[k][cHora])}}

\* the seconds of the day of the times of a group
SegundosDelGrupo(df, g) ==
    {SegundosDe(df.rows[i][cHora].hms) :
        i \in {k \in 1..Len(df.rows) :
                  /\ ~IsNa(df.rows[k][cHora])
                  /\ df.rows[k][cNombreArchivo] = g[1]
                  /\ df.rows[k][cFecha] = g[2]}}

\* latest minus earliest
Lapso(S) == (CHOOSE a \in S : \A b \in S : b <= a) - (CHOOSE a \in S : \A b \in S : a <= b)

RECURSIVE SumaDeLapsos(_, _)
SumaDeLapsos(df, G) ==
    IF G = {} THEN 0
    ELSE LET g == CHOOSE x \in G : TRUE
         IN  Lapso(SegundosDelGrupo(df, g)) + SumaDeLapsos(df, G \ {g})

\* C15: the total is the sum, over the (Nombre Archivo, Fecha) groups with
\* some Hora that is not null, of the latest Hora minus the earliest; a group
\* with one time adds zero and a group without times adds nothing.
C15_SumaDeLapsos ==
    last.op = "tiempo" => last.total = SumaDeLapsos(last.df, GruposConHora(last.df))

\* two files with 09:00 and 10:00 on one day each: two hours
C15_Witness ==
    /\ last.op = "tiempo"
    /\ Range(last.df.rows) =
           {[c \in {cNombreArchivo, cFecha, cHora} |->
                CASE c = cNombreArchivo -> a [] c = cFecha -> FechasT[1] [] OTHER -> h] :
                a \in Range(ArchivosT), h \in {Time(9, 0, 0), Time(10, 0, 0)}}
    /\ last.total = 2 * 3600

\* C16: one file whose rows of one date have the times 23:00:00 and 01:00:00
\* has the total duration 02:00:00.
C16_CruceDeMedianoche ==
    (/\ last.op = "tiempo"
     /\ Cardinality(GruposConHora(last.df)) = 1
     /\ \A g \in GruposConHora(last.df) :
            SegundosDelGrupo(last.df, g) = {23 * 3600, 1 * 3600})
        => last.total = 2 * 3600

(***************************************************************************)
(* Properties of the field coercions (under SpecTexto)                     *)
(***************************************************************************)

\* the hemisphere letters that stand for south and west
SurOeste == {<<"S">>, <<"s">>, <<"W">>, <<"w">>, <<"O">>, <<"o">>}

\* |D| + M/60 + S/3600 of the coordinate of the parts p
Magnitud(p) ==
    IF p.estilo \in {"blancos", "simbolos"}
    THEN Frac(p.grados * 3600 + 36 * 60 + 12, 3600)
    ELSE Frac(p.grados * 10 + 4, 10)

\* C17: for a text "D M S H" that ends in a hemisphere letter H,
\* parse_dms_to_decimal gives |D| + M/60 + S/3600, negated if and only if H
\* is S, W or O, in either case.
C17_Hemisferio ==
    (/\ last.op = "parse_dms"
     /\ last.partes.clase = "coord"
     /\ last.partes.estilo \in {"blancos", "simbolos"}
     /\ last.partes.hemi # <<>>)
        => last.ret = [t |-> "num",
                       q |-> IF last.partes.hemi \in SurOeste
                             THEN FracNeg(Magnitud(last.partes))
                             ELSE Magnitud(last.partes)]

\* C18: the parsed coordinate is negative exactly when the text has a
\* hemisphere letter and it is S, W or O, or has none and is written with a
\* leading minus sign, for decimal texts and for texts of degrees, minutes
\* and seconds alike.
C18_Signo ==
    (last.op = "parse_dms" /\ last.partes.clase = "coord")
        => /\ last.ret.t = "num"
           /\ FracAbs(last.ret.q) = Magnitud(last.partes)
           /\ last.ret.q[1] < 0 <=>
                  IF last.partes.hemi # <<>> THEN last.partes.hemi \in SurOeste
                  ELSE last.partes.signo = <<"-">>

\* the value the parts of a text with a number stand for
ValorNum(p) ==
    Frac((IF p.signo = <<"-">> THEN -1 ELSE 1)
             * (p.entero.v * p.fraccion.d + p.fraccion.n) * p.exponente.por,
         p.fraccion.d * p.exponente.entre)

\* C19: extract_numeric_from_text gives the value of the first signed
\* decimal literal of the text, with its exponent when it has one, a decimal
\* comma counting as a point, whatever follows or precedes the literal; for
\* a cell without a digit it gives the missing value and does not raise.
C19_PrimerLiteral ==
    last.op = "extract" =>
        CASE last.partes.clase = "num" ->
                 last.ret = [t |-> "num", q |-> ValorNum(last.partes)]
          [] last.partes.clase = "sin_digitos" -> last.ret = NaN
          [] OTHER -> last.ret.t = "num"

\* "-12,07 V/m" has given -12.07
C19_Witness ==
    /\ last.op = "extract"
    /\ last.val = Txt(<<"-", "1", "2", ",", "0", "7", " ", "V", "/", "m">>)
    /\ last.ret = [t |-> "num", q |-> <<-1207, 100>>]

(***************************************************************************)
(* Properties of the identification of columns (under SpecProc)            *)
(***************************************************************************)

\* the files that can be read
Legibles == {id \in FileIds : Archivo(id).readable}

\* their sheets without the empty columns, and after the index filter
Hojas == [id \in Legibles |-> DropEmptyCols(read_excel(Archivo(id)))]

HojasFiltradas == [id \in Legibles |-> IndexFiltered(Hojas[id])]

\* the headers the identification of columns of the file id sees
EncabezadosDe(id) == HojasFiltradas[id].cols

\* the header contains, whatever its case, a candidate of the field
Coincide(h, key) ==
    \E cand \in Range(mapping_candidates(key)) : Contains(Lower(h), cand)

\* the positions of the headers of the file that do
Coincidencias ==
    [id \in Legibles, key \in Range(MappingKeys) |->
        {k \in 1..Len(EncabezadosDe(id)) : Coincide(EncabezadosDe(id)[k], key)}]

Coincidentes(id, key) == Coincidencias[id, key]

\* the mapping of the file id
Mapas == [id \in Legibles |-> columnas_map(HojasFiltradas[id])]

MapaDe(id) == Mapas[id]

\* the field key of the file id is mapped to the first header that contains
\* one of its candidates, and is not mapped when there is none
PrimerEncabezado(id, key) ==
    IF Coincidentes(id, key) = {}
    THEN key \notin DOMAIN MapaDe(id)
    ELSE /\ key \in DOMAIN MapaDe(id)
         /\ \E k \in Coincidentes(id, key) :
                /\ \A m \in Coincidentes(id, key) : k <= m
                /\ MapaDe(id)[key] = EncabezadosDe(id)[k]

\* the readable files and the form contents for which every field is mapped
\* so, and the file is rejected for a missing column exactly when a mandatory
\* field has no header
BienIdentificados ==
    {<<x[1], x[2]>> : x \in
        {y \in {id \in FileIds : Archivo(id).readable} \X Metas :
            /\ \A key \in Range(MappingKeys) : PrimerEncabezado(y[1], key)
            /\ Normalizado(y[1], y[2]).outcome = "missing"
                   <=> \E key \in Obligatorios : Coincidentes(y[1], key) = {}}}

\* C20: in every call that returns, every field of every readable file of
\* the batch is mapped to the first header, in the order of the headers, that
\* contains one of the candidates of the field, whatever the case of the
\* header; a field no header matches is not mapped, and the file is rejected
\* for it only when the field is not Lat or Lon.
C20_PrimerEncabezado ==
    Devuelto =>
        \A i \in 1..Len(last.files) :
            Archivo(last.files[i]).readable =>
                <<last.files[i], last.meta>> \in BienIdentificados

\* f.xlsx, whose header "Resultado" precedes "Resultado con incertidumbre
\* (V/m)" and which has neither Lat nor Lon, was accepted with the cell of
\* the first of the two headers as its Resultado; a.xlsx of the same batch
\* has the second header only
C20_Witness ==
    /\ Devuelto
    /\ \E i \in 1..Len(last.files) : last.files[i] = "f"
    /\ \E i \in 1..Len(last.files) :
           /\ last.files[i] = "a"
           /\ MapaDe("a")[cResultado] = hResultadoInc
    /\ MapaDe("f")[cResultado] = cResultado
    /\ cLat \notin DOMAIN MapaDe("f")
    /\ \E j \in 1..Len(last.ret.df_proc.rows) :
           /\ last.ret.df_proc.rows[j][cNombreArchivo] = Txt(Archivo("f").name)
           /\ last.ret.df_proc.rows[j][cResultado] = Num(4, 1)

(***************************************************************************)
(* Properties of the index column and of the summary (under SpecProc)      *)
(***************************************************************************)

\* the sheet of the file id without its empty columns
HojaDe(id) == Hojas[id]

\* the positions of the headers of the sheet that contain, whatever their
\* case, a candidate of the index column
Indices ==
    [id \in Legibles |->
        {k \in 1..Len(HojaDe(id).cols) :
            \E cand \in Range(IndexCandidates) : Contains(Lower(HojaDe(id).cols[k]), cand)}]

ConIndice(id) == Indices[id]

\* the header of the index column of a sheet that has one
EncabezadoIndice(id) ==
    HojaDe(id).cols[CHOOSE k \in ConIndice(id) : \A m \in ConIndice(id) : k <= m]

\* the cell is a number or the text of one
EsNumerica(c) == ~IsNa(to_numeric_coerce(c))

\* the rows of the sheet that are kept
Esperadas ==
    [id \in Legibles |->
        IF ConIndice(id) = {} THEN HojaDe(id).rows
        ELSE SelectSeq(HojaDe(id).rows, LAMBDA r : EsNumerica(r[EncabezadoIndice(id)]))]

FilasEsperadas(id) == Esperadas[id]

\* the count of the file: the largest index, or the rows of the sheet
ConteoEsperado(id) ==
    IF ConIndice(id) = {} THEN <<Len(HojaDe(id).rows), 1>>
    ELSE FracMax({to_numeric_coerce(FilasEsperadas(id)[j][EncabezadoIndice(id)]).q :
                     j \in 1..Len(FilasEsperadas(id))})

\* what is expected of every file that has the mandatory columns and some
\* row to keep: its kept rows, its count and the headers of its Hora and Sonda
Esperado ==
    {[id |-> id, filas |-> FilasEsperadas(id), conteo |-> ConteoEsperado(id),
      hora |-> MapaDe(id)[cHora], sonda |-> MapaDe(id)[cSonda]] :
        id \in {x \in FileIds : /\ Archivo(x).readable
                                 /\ FirstMissing(HojaDe(x)) = <<>>
                                 /\ Len(FilasEsperadas(x)) > 0}}

\* the rows rows are the kept rows of the file, in their order (compared by
\* the cells of Hora and Sonda), and total is its count
ComoSeEspera(e, rows, total) ==
    /\ Len(rows) = Len(e.filas)
    /\ \A j \in 1..Len(e.filas) :
           /\ rows[j][cHora] = e.filas[j][e.hora]
           /\ rows[j][cSonda] = e.filas[j][e.sonda]
    /\ <<total, 1>> = e.conteo

\* C21: in every call that returns, the rows of an accepted file with an
\* index column are the rows of its sheet whose index cell is a number, and
\* its count in the summary is the largest of those numbers; the rows of an
\* accepted file without an index column are all the rows of its sheet and
\* its count is their number.
C21_IndiceYConteo ==
    Devuelto =>
        \A k \in 1..Len(last.ret.resumen_df) :
            \E e \in Esperado :
                /\ Txt(Archivo(e.id).name) = last.ret.resumen_df[k].archivo
                /\ ComoSeEspera(e, DeArchivo(last.ret.df_proc.rows,
                                             last.ret.resumen_df[k].archivo),
                                last.ret.resumen_df[k].total_mediciones)

\* a.xlsx, with the indices 1 and 3 and a footer row, has two rows and the
\* count 3; b.xlsx, without an index column, has its one row and the count 1
C21_Witness ==
    /\ Devuelto
    /\ last.files = <<"a", "b">>
    /\ Len(last.ret.df_proc.rows) = 3
    /\ Len(HojaDe("a").rows) = 3
    /\ last.ret.resumen_df[1].total_mediciones = 3
    /\ last.ret.resumen_df[2].total_mediciones = 1


\* the files that have the mandatory columns and some row to keep
IdsConFilas == {e.id : e \in Esperado}

\* the files of a batch that have a row to keep, in the order of the batch
ConFilas(files) == SelectSeq(files, LAMBDA id : id \in IdsConFilas)

\* the name of the file without its extension ".xlsx"
SinExtension(id) == SubSeq(Archivo(id).name, 1, Len(Archivo(id).name) - 5)

\* the case number of the file: the one of the form, or the name of the file
\* without extension when the form has none
ExpedienteDe(id, meta) ==
    Txt(IF meta.expediente # <<>> THEN meta.expediente ELSE SinExtension(id))

\* the numbers among the results of the kept rows of the file
ResultadosDe(id) ==
    {extract_numeric_from_text(FilasEsperadas(id)[j][MapaDe(id)[cResultado]]) :
        j \in 1..Len(FilasEsperadas(id))} \ {NaN}

\* the largest result of the file, or the missing value when none is a number
MaximoDe(id) ==
    IF ResultadosDe(id) = {} THEN NaN
    ELSE CHOOSE x \in ResultadosDe(id) :
             \A y \in ResultadosDe(id) : ~FracLess(x.q, y.q)

\* the summary row expected for the file under the form contents meta
FilaDeResumen(id, meta) ==
    [archivo |-> Txt(Archivo(id).name),
     expediente |-> ExpedienteDe(id, meta),
     total_mediciones |-> ConteoEsperado(id)[1],
     max_resultado |-> MaximoDe(id)]

\* the expected summary rows, by file and form contents
FilasDeResumen == [id \in IdsConFilas, meta \in Metas |-> FilaDeResumen(id, meta)]

\* C22: the summary of a call that returns has exactly one row per accepted
\* file, in the order of the batch, with the name of the file, the case number
\* stamped on the rows of the file (the one of the form if it is not empty,
\* otherwise the name of the file without extension), the total-measurements
\* count and the largest result, or the missing value when no result of the
\* file is a number.
C22_ResumenPorArchivo ==
    Devuelto =>
        /\ Len(last.ret.resumen_df) = Len(ConFilas(last.files))
        /\ \A k \in 1..Len(ConFilas(last.files)) :
               /\ last.ret.resumen_df[k] = FilasDeResumen[ConFilas(last.files)[k], last.meta]
               /\ \A r \in Range(DeArchivo(last.ret.df_proc.rows,
                                          last.ret.resumen_df[k].archivo)) :
                      r[cExpediente] = last.ret.resumen_df[k].expediente

\* a form without case number and a batch g, d, a: g.xlsx has no numeric
\* result, d.xlsx cannot be read, a.xlsx has one numeric result
C22_Witness ==
    /\ Devuelto
    /\ last.files = <<"g", "d", "a">>
    /\ last.meta.expediente = <<>>
    /\ Len(last.ret.resumen_df) = 2
    /\ last.ret.resumen_df[1].max_resultado = NaN
    /\ last.ret.resumen_df[1].expediente = Txt(<<"g">>)
    /\ last.ret.resumen_df[2].max_resultado.t = "num"


(***************************************************************************)
(* load_tabla_maestra_from_db and save_tabla_maestra_to_db alone: at the   *)
(* start either the session holds a table and there is no store, or the    *)
(* store holds a table written with the column names of an older version   *)
(* and the session holds none.                                             *)
(***************************************************************************)

\* the longest table drawn
MaxTabla == 2

\* the columns of the tables in memory: some expected ones and one that
\* load_tabla_maestra_from_db does not recognize
ColsMemoria == <<cLocalidad, cResultado, cFecha, cHora, cFechaCarga, hObs>>

FilaMemoria(loc, res, fecha, hora, obs) ==
    [c \in Range(ColsMemoria) |->
        CASE c = cLocalidad -> Txt(loc) [] c = cResultado -> res
          [] c = cFecha -> fecha [] c = cHora -> hora
          [] c = cFechaCarga -> Stamp(1) [] OTHER -> obs]

FilasMemoria ==
    {FilaMemoria(tOnce, Num(123, 10), Date(2024, 1, 9), Time(9, 0, 0), NaN),
     FilaMemoria(tOnce, NaN, Date(2024, 1, 9), Time(17, 0, 0), Txt(tE1)),
     FilaMemoria(tonce, Num(87, 1), Date(2024, 1, 8), NaN, NaN),
     FilaMemoria(tSalta, Num(4, 1), NaN, Time(10, 0, 0), Txt(tS1)),
     FilaMemoria(<<>>, Num(4, 1), Date(2024, 1, 8), Time(10, 0, 0), NaN)}

\* the sequences of at most n elements of S
RECURSIVE SeqsHasta(_, _)
SeqsHasta(S, n) ==
    IF n = 0 THEN {<<>>}
    ELSE SeqsHasta(S, n - 1) \cup
         {Append(q, x) : q \in {y \in SeqsHasta(S, n - 1) : Len(y) = n - 1}, x \in S}

\* the tables in memory of at most n rows
TablasMemoria(n) ==
    {[cols |-> ColsMemoria, rows |-> rows] : rows \in SeqsHasta(FilasMemoria, n)}

\* column names of a table of an older version
hlocalidad == <<" ", "L", "O", "C", "A", "L", "I", "D", "A", "D", " ">>
hresultado_inc == <<"r", "e", "s", "u", "l", "t", "a", "d", "o", "_", "c", "o", "n", "_",
                    "i", "n", "c", "e", "r", "t", "i", "d", "u", "m", "b", "r", "e">>
htime == <<"t", "i", "m", "e">>
harchivo == <<"a", "r", "c", "h", "i", "v", "o">>

ColsAlmacen == {<<hlocalidad, hresultado_inc, htime, harchivo, hObs>>,
                <<hObs, cLocalidad, htime>>}

CeldasAlmacen == {Txt(tOnce), Txt(tS1), Num(4, 1), NaN}

FilasAlmacen(cols) ==
    {[c \in Range(cols) |-> IF c = cols[1] THEN x ELSE IF c = cols[2] THEN y ELSE Txt(c)] :
        x \in CeldasAlmacen, y \in {Num(87, 1), NaN}}

\* the stored tables of at most n rows
Almacenes(n) ==
    UNION {{[estado |-> "tabla", df |-> [cols |-> cols, rows |-> rows]] :
               rows \in SeqsHasta(FilasAlmacen(cols), n)} : cols \in ColsAlmacen}

InitAlmacen ==
    /\ uploader_key = 0
    /\ clock = 0
    /\ origen = [tm |-> <<>>, db |-> <<>>]
    /\ otra = SinSesion
    /\ last = [op |-> "inicio", df |-> EmptyDF, write |-> "none"]
    /\ \/ /\ tabla_maestra \in TablasMemoria(MaxTabla)
          /\ db = [estado |-> "sin_archivo", df |-> EmptyDF]
       \/ /\ tabla_maestra = EmptyDF
          /\ db \in Almacenes(MaxTabla)

\* save_tabla_maestra_to_db(tabla_maestra), ending as w
GuardarTabla(w) ==
    /\ last.op = "inicio"
    /\ tabla_maestra # EmptyDF
    /\ db' = save_tabla_maestra_to_db(db, tabla_maestra, w)
    /\ last' = [op |-> "save", df |-> tabla_maestra, write |-> w]
    /\ UNCHANGED <<tabla_maestra, uploader_key, clock, origen, otra>>

\* tabla_maestra = load_tabla_maestra_from_db()
CargarTabla ==
    /\ last.op # "load"
    /\ tabla_maestra' = load_tabla_maestra_from_db(db)
    /\ last' = [op |-> "load", df |-> last.df, write |-> last.write]
    /\ UNCHANGED <<db, uploader_key, clock, origen, otra>>

NextAlmacen ==
    \/ \E w \in WriteOutcomes : GuardarTabla(w)
    \/ CargarTabla

SpecAlmacen == InitAlmacen /\ [][NextAlmacen]_vars

(***************************************************************************)
(* Properties of the load and of the save (under SpecAlmacen)              *)
(***************************************************************************)

\* the stored column c is one that the load renames to, or that is, an
\* expected column
Reconocida(c) == CanonicalOf(c) \in Range(EXPECTED_COLS)

\* the table df holds the rows of the stored table st, in their order, every
\* stored column under its canonical name, or under its own when the load
\* does not recognize it
MismasFilas(df, st) ==
    /\ Len(df.rows) = Len(st.rows)
    /\ \A c \in Range(st.cols) :
          /\ ~Reconocida(c) => c \in Range(df.cols)
          /\ \A i \in 1..Len(st.rows) : df.rows[i][CanonicalOf(c)] = st.rows[i][c]

\* every expected column is there, and one that no stored column stands for
\* holds only missing values
ColumnasEsperadas(df, st) ==
    \A k \in 1..Len(EXPECTED_COLS) :
        /\ EXPECTED_COLS[k] \in Range(df.cols)
        /\ (\A c \in Range(st.cols) : CanonicalOf(c) # EXPECTED_COLS[k]) =>
               \A i \in 1..Len(df.rows) : IsNa(df.rows[i][EXPECTED_COLS[k]])

\* the rows of df are those of the table mem that was saved, in their order:
\* cell by cell the value that was saved, a date, a time or a timestamp as
\* the text the store keeps of it
DeVuelta(df, mem) ==
    /\ Len(df.rows) = Len(mem.rows)
    /\ \A i \in 1..Len(mem.rows) : \A c \in Range(mem.cols) :
          IF mem.rows[i][c].t \in {"date", "time", "stamp"}
          THEN /\ df.rows[i][c].t = "sqltxt"
               /\ df.rows[i][c].of = mem.rows[i][c].t
               /\ df.rows[i][c] = to_sql_cell(mem.rows[i][c])
          ELSE df.rows[i][c] = mem.rows[i][c]

C23_WitnessAntigua ==
    /\ last.op = "load"
    /\ last.write = "none"
    /\ db.estado = "tabla"
    /\ db.df.cols = <<hlocalidad, hresultado_inc, htime, harchivo, hObs>>
    /\ Len(tabla_maestra.rows) = 2
    /\ tabla_maestra.rows[2][cLocalidad] = Txt(tS1)
    /\ tabla_maestra.rows[2][hObs] = Txt(hObs)


(***************************************************************************)
(* The colour scale: the view of a locality with one measurement that has  *)
(* coordinates.  The script computes the percentage of the limit of the    *)
(* largest result, shows the indicator and then colours the point of the   *)
(* map.                                                                    *)
(***************************************************************************)

\* the largest whole result drawn, in V/m
MaxVm == 30

\* None of Python
None == [t |-> "none"]

\* max_resultado**2 / 3770 / 0.20021 * 100 if pd.notna(max_resultado) else None
max_resultado_pct(max_resultado) ==
    IF IsNa(max_resultado) THEN None
    ELSE [t |-> "num",
          q |-> Frac(max_resultado.q[1] * max_resultado.q[1] * 1000000,
                     max_resultado.q[2] * max_resultado.q[2] * 7547917)]

\* float("inf") as the upper end of a range: the fraction 1/0, which every
\* number is less than
Inf == <<1, 0>>

\* low <= v < high
EnRango(low, high, v) == ~FracLess(v, low) /\ FracLess(v, high)

\* (low, high, color) with whole ends
Rango(low, high, color) == <<<<low, 1>>, <<high, 1>>, color>>

rangos_colores ==
    <<Rango(0, 1, "#84C2F5"), Rango(1, 2, "#489DFF"), Rango(2, 4, "#006BD6"),
      Rango(4, 8, "#A9E7A9"), Rango(8, 15, "#89DD89"), Rango(15, 20, "#4D9623"),
      Rango(20, 35, "#D9FF00"), Rango(35, 50, "#F39A6D"), Rango(50, 100, "#E68200"),
      <<<<100, 1>>, Inf, "#CC0000">> >>

rangos_colores_map ==
    <<Rango(0, 1, <<132, 194, 245>>), Rango(1, 2, <<72, 157, 255>>),
      Rango(2, 4, <<0, 107, 214>>), Rango(4, 8, <<169, 231, 169>>),
      Rango(8, 15, <<137, 221, 137>>), Rango(15, 20, <<77, 150, 35>>),
      Rango(20, 35, <<217, 255, 0>>), Rango(35, 50, <<243, 154, 109>>),
      Rango(50, 100, <<230, 130, 0>>), <<<<100, 1>>, Inf, <<204, 0, 0>> >> >>

\* next((color for low, high, color in rangos if low <= v < high), otro)
ColorEn(rangos, v, otro) ==
    IF \E k \in 1..Len(rangos) : EnRango(rangos[k][1], rangos[k][2], v)
    THEN rangos[CHOOSE k \in 1..Len(rangos) :
                    /\ EnRango(rangos[k][1], rangos[k][2], v)
                    /\ \A m \in 1..(k - 1) : ~EnRango(rangos[m][1], rangos[m][2], v)][3]
    ELSE otro

\* `if max_resultado_pct and not df_localidad.empty`: the indicators shown,
\* none when the percentage is None or zero (which are false), otherwise one
\* of the colour color_localidad
color_localidad(pct) ==
    IF pct = None \/ pct.q = <<0, 1>> THEN <<>>
    ELSE <<ColorEn(rangos_colores, pct.q, "#FFFFFF")>>

color_semaforo(valor) ==
    IF IsNa(valor) THEN <<200, 200, 200>>
    ELSE ColorEn(rangos_colores_map, valor.q, <<0, 0, 0>>)

\* the results drawn for the measurement
ResultadosVm ==
    {Num(n, 1) : n \in (-2)..MaxVm} \cup {Num(k, 2) : k \in {1, 3, 5, 7, 11}} \cup {NaN}

InitColor ==
    /\ tabla_maestra = EmptyDF
    /\ db = [estado |-> "sin_archivo", df |-> EmptyDF]
    /\ uploader_key = 0
    /\ clock = 0
    /\ origen = [tm |-> <<>>, db |-> <<>>]
    /\ otra = SinSesion
    /\ \E r \in ResultadosVm :
           last = [op |-> "localidad", resultado |-> r, pct |-> max_resultado_pct(r),
                   indicador |-> <<>>, punto |-> <<>>]

\* Semaforo: the indicator of the locality
Semaforo ==
    /\ last.op = "localidad"
    /\ last' = [last EXCEPT !.op = "semaforo", !.indicador = color_localidad(last.pct)]
    /\ UNCHANGED <<tabla_maestra, db, uploader_key, clock, origen, otra>>

\* Mapa interactivo: coords["color"] = coords["Resultado"].apply(color_semaforo)
MapaSemaforizado ==
    /\ last.op = "semaforo"
    /\ last' = [last EXCEPT !.op = "mapa", !.punto = color_semaforo(last.resultado)]
    /\ UNCHANGED <<tabla_maestra, db, uploader_key, clock, origen, otra>>

NextColor == Semaforo \/ MapaSemaforizado

SpecColor == InitColor /\ [][NextColor]_vars

(***************************************************************************)
(* Properties of the colour scale (under SpecColor)                        *)
(***************************************************************************)

\* the lower ends of the ten buckets of the scale
Limites == <<0, 1, 2, 4, 8, 15, 20, 35, 50, 100>>

\* the bucket of a percentage: k for the k-th of the ten, 11 for a missing or
\* negative one
CubetaDe(pct) ==
    IF pct = None \/ FracLess(pct.q, <<0, 1>>) THEN 11
    ELSE CHOOSE k \in 1..10 :
             /\ ~FracLess(pct.q, <<Limites[k], 1>>)
             /\ k < 10 => FracLess(pct.q, <<Limites[k + 1], 1>>)

\* the colours of the buckets as the indicator and as the map write them
Hex == <<"#84C2F5", "#489DFF", "#006BD6", "#A9E7A9", "#89DD89", "#4D9623",
         "#D9FF00", "#F39A6D", "#E68200", "#CC0000", "#FFFFFF">>

Rgb == << <<132, 194, 245>>, <<72, 157, 255>>, <<0, 107, 214>>, <<169, 231, 169>>,
          <<137, 221, 137>>, <<77, 150, 35>>, <<217, 255, 0>>, <<243, 154, 109>>,
          <<230, 130, 0>>, <<204, 0, 0>> >>

\* the colour of the point is one of the catch-all colours of the map
PuntoSinCubeta == last.punto \in {<<200, 200, 200>>, <<0, 0, 0>>}

\* C24: for the same measurement the indicator and the point of the map both
\* show the bucket of the percentage of the limit: one of the ten half-open
\* buckets, or the catch-all when the percentage is missing or out of range.
C24_MismaCubeta ==
    last.op = "mapa" =>
        /\ last.indicador = <<Hex[CubetaDe(last.pct)]>>
        /\ IF CubetaDe(last.pct) = 11 THEN PuntoSinCubeta
           ELSE last.punto = Rgb[CubetaDe(last.pct)]

\* the indicator, where it is shown, has the colour of the bucket of the
\* percentage
C24_IndicadorSolo ==
    (last.op = "mapa" /\ last.indicador # <<>>) =>
        last.indicador = <<Hex[CubetaDe(last.pct)]>>

\* the point has the colour of the bucket that the result in V/m falls in,
\* not the percentage
C24_PuntoPorResultado ==
    (last.op = "mapa" /\ ~IsNa(last.resultado)) =>
        IF CubetaDe(last.resultado) = 11 THEN last.punto = <<0, 0, 0>>
        ELSE last.punto = Rgb[CubetaDe(last.resultado)]


(***************************************************************************)
(* The store when the free-text fields of the forms may be left empty: the *)
(* upload form and the edit form take any of the form contents, the two    *)
(* deletes and the edit act on a selection, which is never empty.          *)
(***************************************************************************)

\* the upload of this store: b.xlsx, which is accepted
LotesLibres == {<<"b">>}

NextLibre ==
    \/ Rerun
    \/ NewSession
    \/ \E files \in LotesLibres, meta \in Metas, w \in WriteOutcomes :
           Submit(files, meta, w)
    \/ \E nombre \in Localidades, w \in WriteOutcomes :
           EliminarLocalidad(nombre, w)
    \/ \E l \in Localidades, meta \in Metas, w \in WriteOutcomes :
           GuardarCambios(l, meta, w)
    \/ \E l \in Localidades, w \in WriteOutcomes :
           EliminarLocalidadCb(l, w)

SpecLibre == Init /\ [][NextLibre]_vars

(***************************************************************************)
(* Properties of the locality of the rows (under SpecLibre)                *)
(***************************************************************************)

\* a selection of the delete or of the edit can name the locality of the row
Seleccionable(r) ==
    /\ cLocalidad \in DOMAIN r
    /\ r[cLocalidad].t = "txt"
    /\ Len(r[cLocalidad].s) > 0

\* C28: every row of the table of the session and of the stored table carries
\* a Localidad that is neither missing nor empty, so that a delete of a
\* locality the interface permits can remove it.
C28_LocalidadNoVacia ==
    /\ \A i \in 1..Len(tabla_maestra.rows) : Seleccionable(tabla_maestra.rows[i])
    /\ \A i \in 1..Len(db.df.rows) : Seleccionable(db.df.rows[i])

\* the rows with an empty Localidad stay through the deletes of every
\* locality that can be selected
C28_FilaQueQueda ==
    /\ last.op \in {"eliminar", "eliminar_cb"}
    /\ last.write = "ok"
    /\ Len(tabla_maestra.rows) > 0
    /\ \A i \in 1..Len(tabla_maestra.rows) : tabla_maestra.rows[i][cLocalidad] = Txt(<<>>)


(***************************************************************************)
(* Properties of the script runs after a failed write (under Spec)         *)
(***************************************************************************)

\* C27: a script run never replaces a table that reflects a mutation by the
\* stored one: after a mutation whose write failed, the run that no widget
\* triggered leaves the rows of the table in memory as they are, and the run
\* that follows the delete callback of the expander shows the table without
\* the rows of the deleted locality, also when no row remains.
C27_MutacionEnMemoria ==
    [][
        /\ (last'.op = "rerun" /\ last.op \in Mutaciones /\ last.write \in Fallas) =>
               tabla_maestra'.rows = tabla_maestra.rows
        /\ (last'.op = "eliminar_cb" /\ last'.write \in Fallas) =>
               tabla_maestra'.rows = SinLocalidad(tabla_maestra, last'.nombre).rows
    ]_vars

\* the sidebar delete removed every row, its write failed before the store
\* was touched, and the table in memory is empty while the store has rows
C27_BorradoSinGuardar ==
    /\ last.op = "eliminar"
    /\ last.write = "falla_antes"
    /\ Len(tabla_maestra.rows) = 0
    /\ Len(db.df.rows) > 0

\* where the table in memory keeps a row, the failed mutation stays through
\* the runs that follow
C27_ConFilas ==
    [][
        (/\ last'.op = "rerun"
         /\ last.op \in Mutaciones
         /\ last.write \in Fallas
         /\ Len(tabla_maestra.rows) > 0) =>
            tabla_maestra' = tabla_maestra
    ]_vars


(***************************************************************************)
(* Two sessions on the same store.  Every browser tab has its own          *)
(* session_state; the script runs of the two interleave, and the store is  *)
(* the only thing they share.  The handlers act on the session in turn;    *)
(* CambiarDeSesion gives the turn to the other one.                        *)
(***************************************************************************)

\* the next script run is of the other session
CambiarDeSesion ==
    /\ otra' = [tm |-> tabla_maestra, origen |-> origen.tm,
                uploader_key |-> uploader_key,
                write |-> IF last.op \in {"submit", "eliminar"} THEN last.write ELSE "none"]
    /\ tabla_maestra' = otra.tm
    /\ uploader_key' = otra.uploader_key
    /\ origen' = [tm |-> otra.origen, db |-> origen.db]
    /\ last' = Op("cambio", <<>>, NoMeta, <<>>, FALSE, NoRet, "none", <<>>)
    /\ UNCHANGED <<db, clock>>

\* the form contents of the two sessions: the one without case number
FormulariosSesion == {m \in Formularios : m.expediente = <<>>}

NextSesiones ==
    \/ Rerun
    \/ CambiarDeSesion
    \/ \E files \in LotesLibres, meta \in FormulariosSesion, w \in WriteOutcomes :
           Submit(files, meta, w)
    \/ \E nombre \in {m.localidad : m \in FormulariosSesion}, w \in WriteOutcomes :
           EliminarLocalidad(nombre, w)

SpecSesiones == Init /\ [][NextSesiones]_vars

(***************************************************************************)
(* Properties of two sessions (under SpecSesiones)                         *)
(***************************************************************************)

\* the messages of the operation are those of a write without conflict: the
\* success message of the handler and nothing else
SinConflicto ==
    /\ ~last.raised
    /\ Len(last.msgs) = 1
    /\ last.msgs[1].level = "success"

Resuelto(id, key) ==
    CHOOSE k \in Coincidentes(id, key) : \A m \in Coincidentes(id, key) : k <= m

\* the files with a row to keep in which two mandatory fields resolve to the
\* same header
CamposJuntos ==
    {y : y \in {id \in IdsConFilas :
                   \E c1 \in Obligatorios, c2 \in Obligatorios :
                       c1 # c2 /\ Resuelto(id, c1) = Resuelto(id, c2)}}

\* the call was given one file and returned rows of it
UnoAceptado ==
    /\ Devuelto
    /\ Len(last.files) = 1
    /\ Len(last.ret.resumen_df) = 1

\* C26: in every file that is accepted the four mandatory fields resolve to
\* four different headers, and the frame the file contributes has a column for
\* each of Fecha, Hora, Resultado and Sonda.
C26_CamposSeparados ==
    UnoAceptado =>
        /\ last.files[1] \notin CamposJuntos
        /\ Obligatorios \subseteq Range(last.ret.df_proc.cols)

\* g.xlsx is accepted, and the rows it contributes have no column Fecha
C26_SinFecha ==
    /\ UnoAceptado
    /\ last.files = <<"g">>
    /\ cFecha \notin Range(last.ret.df_proc.cols)
    /\ cHora \in Range(last.ret.df_proc.cols)

\* a file whose mandatory fields resolve to different headers contributes a
\* column for each of them
C26_SinEncabezadoComun ==
    (UnoAceptado /\ last.files[1] \notin CamposJuntos) =>
        Obligatorios \subseteq Range(last.ret.df_proc.cols)


(***************************************************************************)
(* The durations of the view of a scope: the record set df_localidad is    *)
(* drawn at the start, with Fecha and Hora converted.  The script shows    *)
(* the total, then the daily and the monthly summary; or the rows of one   *)
(* file of the record set are ingested again and the total is computed.    *)
(***************************************************************************)

\* the most rows of a record set
MaxRegistros == 3

cFechaHora == <<"F", "e", "c", "h", "a", "H", "o", "r", "a">>
cMes == <<"M", "e", "s">>

FechasD == <<NaN, Date(2024, 1, 8), Date(2024, 1, 9), Date(2024, 2, 1)>>
HorasD == <<NaN, Time(9, 0, 0), Time(17, 0, 0)>>

\* the k-th of the rows that can be made of ArchivosT, FechasD and HorasD
FilaD(k) ==
    [c \in {cNombreArchivo, cFecha, cHora} |->
        CASE c = cNombreArchivo ->
                 ArchivosT[((k - 1) \div (Len(FechasD) * Len(HorasD))) + 1]
          [] c = cFecha -> FechasD[(((k - 1) \div Len(HorasD)) % Len(FechasD)) + 1]
          [] OTHER -> HorasD[((k - 1) % Len(HorasD)) + 1]]

\* the increasing sequences of at most n numbers of lo..hi
RECURSIVE Subidas(_, _, _)
Subidas(n, lo, hi) ==
    {<<>>} \cup
    (IF n = 0 THEN {}
     ELSE UNION {{<<i>> \o t : t \in Subidas(n - 1, i + 1, hi)} : i \in lo..hi})

\* the record sets of at most n different rows
RegistrosD(n) ==
    {[cols |-> <<cNombreArchivo, cFecha, cHora>>,
      rows |-> [j \in 1..Len(idx) |-> FilaD(idx[j])]] :
        idx \in Subidas(n, 1, Len(ArchivosT) * Len(FechasD) * Len(HorasD))}

\* df_localidad["FechaHora"]: datetime.combine(Fecha, Hora), or NaT
ConFechaHora(df) ==
    SetCol(df, cFechaHora,
           LAMBDA r : IF ~IsNa(r[cFecha]) /\ ~IsNa(r[cHora])
                      THEN [t |-> "datetime", ymd |-> r[cFecha].ymd, hms |-> r[cHora].hms]
                      ELSE NaN)

\* df_localidad["Fecha"] = FechaHora.dt.date and ["Mes"] = FechaHora.dt.to_period("M")
ConFechaYMes(df) ==
    SetCol(SetCol(df,
        cFecha, LAMBDA r : IF IsNa(r[cFechaHora]) THEN NaN
                           ELSE [t |-> "date", ymd |-> r[cFechaHora].ymd]),
        cMes, LAMBDA r : IF IsNa(r[cFechaHora]) THEN NaN
                         ELSE [t |-> "period",
                               ym |-> <<r[cFechaHora].ymd[1], r[cFechaHora].ymd[2]>>])

\* for key, g in df.groupby(col): calcular_tiempo_total_por_archivo(g), by key
TiempoPor(df, col) ==
    [key \in Claves(df, col) |-> calcular_tiempo_total_por_archivo(Grupo(df, col, key))]

\* `if "FechaHora" in df_localidad.columns and not df_localidad.empty`: the
\* durations of the daily (col Fecha) or the monthly (col Mes) summary
ResumenPor(df, col) ==
    IF IsEmpty(df) THEN <<>> ELSE TiempoPor(ConFechaYMes(ConFechaHora(df)), col)

\* pd.concat of the table and the rows of the file archivo, ingested again
Reingresado(df, archivo) == Concat2(df, Grupo(df, cNombreArchivo, archivo))

InitDesglose ==
    /\ tabla_maestra = EmptyDF
    /\ db = [estado |-> "sin_archivo", df |-> EmptyDF]
    /\ uploader_key = 0
    /\ clock = 0
    /\ origen = [tm |-> <<>>, db |-> <<>>]
    /\ otra = SinSesion
    /\ \E df \in RegistrosD(MaxRegistros) :
           last = [op |-> "registros", df |-> df, total |-> 0, antes |-> 0,
                   dias |-> <<>>, meses |-> <<>>]

\* tiempo_total_localidad = calcular_tiempo_total_por_archivo(df_localidad)
VerTotal ==
    /\ last.op = "registros"
    /\ last' = [last EXCEPT !.op = "total",
                            !.total = calcular_tiempo_total_por_archivo(ConFechaHora(last.df))]
    /\ UNCHANGED <<tabla_maestra, db, uploader_key, clock, origen, otra>>

\* Resumen diario
ResumenDiario ==
    /\ last.op = "total"
    /\ last' = [last EXCEPT !.op = "dias", !.dias = ResumenPor(last.df, cFecha)]
    /\ UNCHANGED <<tabla_maestra, db, uploader_key, clock, origen, otra>>

\* Resumen mensual
ResumenMensual ==
    /\ last.op = "dias"
    /\ last' = [last EXCEPT !.op = "meses", !.meses = ResumenPor(last.df, cMes)]
    /\ UNCHANGED <<tabla_maestra, db, uploader_key, clock, origen, otra>>

\* the file archivo of the record set is ingested a second time, and the
\* total is computed over the table
Reingresar(archivo) ==
    /\ last.op = "registros"
    /\ archivo \in Claves(last.df, cNombreArchivo)
    /\ last' = [last EXCEPT !.op = "reingreso",
                            !.df = Reingresado(last.df, archivo),
                            !.antes = calcular_tiempo_total_por_archivo(last.df),
                            !.total = calcular_tiempo_total_por_archivo(
                                          Reingresado(last.df, archivo))]
    /\ UNCHANGED <<tabla_maestra, db, uploader_key, clock, origen, otra>>

NextDesglose ==
    \/ VerTotal
    \/ ResumenDiario
    \/ ResumenMensual
    \/ \E archivo \in Range(ArchivosT) : Reingresar(archivo)

SpecDesglose == InitDesglose /\ [][NextDesglose]_vars

(***************************************************************************)
(* Properties of the durations (under SpecDesglose)                        *)
(***************************************************************************)

\* the sum of the values of a function
RECURSIVE SumaSobre(_, _)
SumaSobre(f, S) ==
    IF S = {} THEN 0
    ELSE f[CHOOSE x \in S : TRUE] + SumaSobre(f, S \ {CHOOSE x \in S : TRUE})

Suma(f) == SumaSobre(f, DOMAIN f)

\* C29: after a file of the record set is ingested a second time the total
\* duration is the one before.
C29_ReingresoNoSuma ==
    last.op = "reingreso" => last.total = last.antes

\* a file with two readings on one day and one on another, ingested again
C29_Witness ==
    /\ last.op = "reingreso"
    /\ Len(last.df.rows) = 2 * MaxRegistros
    /\ last.total = 8 * 3600
    /\ Cardinality(Claves(last.df, cFecha)) = 2

\* C30: the durations of the daily summary add up to the total shown for the
\* same record set, and so do the durations of the monthly summary.
C30_DesgloseSuma ==
    last.op = "meses" =>
        /\ Suma(last.dias) = last.total
        /\ Suma(last.meses) = last.total

\* two files with readings on two days of two months, one of them eight hours
\* long
C30_Witness ==
    /\ last.op = "meses"
    /\ Cardinality(DOMAIN last.dias) = 2
    /\ Cardinality(DOMAIN last.meses) = 2
    /\ Cardinality(Claves(last.df, cNombreArchivo)) = 2
    /\ last.total = 8 * 3600

=============================================================================
